---- MODULE Spec2Model ----
(***************************************************************************)
(* A model of the deaddrop service (cburnette/deaddrop): the registrar,    *)
(* the bearer-token authenticator and the mailbox (send / poll) handlers,  *)
(* running as concurrent requests against one Redis store.                 *)
(*                                                                         *)
(* Every handler is a sequence of steps, one step per store command.  The  *)
(* commands of a plain redis::pipe() are separate steps, because a         *)
(* pipeline that is not .atomic() lets the commands of other connections   *)
(* run between its own; the commands of redis::pipe().atomic() are one     *)
(* step.  Strings whose content the code inspects are sequences of         *)
(* one-character strings.  Uuid::new_v4() and rand::random() are fresh     *)
(* values drawn from counters.                                             *)
(***************************************************************************)
EXTENDS Integers, Sequences, FiniteSets, TLC

(***************************************************************************)
(* Bounds of the model                                                     *)
(***************************************************************************)
\* register requests that reach the id generation (SpecReg)
MaxRegs == 3
\* send requests started under Spec
MaxSends == 4
\* send requests started under SpecFan
MaxFanSends == 2
\* send requests started under SpecConc
MaxConcSends == 2
\* poll requests started under SpecConc (overlapping polls can grow an inbox)
MaxPolls == 2
\* send requests started under SpecVal
MaxValSends == 13
\* send requests started under SpecRate
MaxRateSends == 15
\* send requests started under SpecAdmin
MaxAdminSends == 2
\* send requests started under SpecFrame
MaxFrameSends == 2
\* send requests started under SpecExpiry
MaxExpirySends == 3
\* SpecExpiry: the clock advances by ExpiryStep seconds up to MaxExpiryTime
ExpiryStep == 60
MaxExpiryTime == 180
\* send requests started under SpecQuiet
MaxQuietSends == 1
\* SpecOwn: the sends made beside the activate / deactivate / update requests
MaxOwnSends == 1
\* SpecQuery: the longest phrase built from the alphabet
MaxPhraseLen == 3
\* SpecInactive: the sends of agents 1 and 2 together
MaxInactiveSends == 2
\* registered agents at the start of SpecQuiet: more than BusiestMax inboxes
NBusy == 12

\* the wall clock advances TickStep seconds at a time, up to MaxTime
TickStep == 30
MaxTime == 90

\* client connections; each runs one request at a time
Procs == {"p1", "p2", "p3"}

(***************************************************************************)
(* Program constants                                                       *)
(***************************************************************************)
NameMinLen == 3
NameMaxLen == 128
DescMaxLen == 1024
RecipientsMax == 10
BodyMaxLen == 32768
TakeMin == 1
TakeMax == 10
TakeDefault == 1
PhrasesMax == 10
PhraseMaxLen == 256
SearchLimit == 50
BusiestMax == 10
RateLimit == 12
RateExpire == 120
\* the width of a rate bucket: the clock formatted %Y%m%d%H%M
BucketSeconds == 60

(***************************************************************************)
(* Strings                                                                 *)
(***************************************************************************)
Whitespace == {" ", "\t", "\n"}
AsciiAlnum == {"a", "b", "c", "o", "t", "A", "Z", "0", "1", "9"}

RECURSIVE TrimStart(_)
TrimStart(s) ==
  IF s # <<>> /\ Head(s) \in Whitespace THEN TrimStart(Tail(s)) ELSE s

RECURSIVE TrimEnd(_)
TrimEnd(s) ==
  IF s # <<>> /\ s[Len(s)] \in Whitespace
  THEN TrimEnd(SubSeq(s, 1, Len(s) - 1))
  ELSE s

\* str::trim
trim(s) == TrimEnd(TrimStart(s))

Range(s) == {s[i] : i \in 1..Len(s)}

(***************************************************************************)
(* Finite maps (Redis keys of one family: key -> value)                    *)
(***************************************************************************)
Put(f, k, v) == [x \in (DOMAIN f) \cup {k} |-> IF x = k THEN v ELSE f[x]]
Del(f, k) == [x \in (DOMAIN f) \ {k} |-> f[x]]
EmptyMap == [x \in {} |-> 0]

(***************************************************************************)
(* Token codec (auth.rs)                                                   *)
(***************************************************************************)
\* the 32 random bytes of key number n, prefixed dd_key_
ApiKey(n) == [prefix |-> "dd_key_", rand |-> n]

\* a digest that ignores the random bytes of the token
hash_tokenPrefixOnly(token) == [alg |-> "sha256", prefix |-> token.prefix]

\* SHA-256, hex encoded: a digest is not the token, and distinct tokens have
\* distinct digests
hash_token(token) == [alg |-> "sha256", prefix |-> token.prefix, rand |-> token.rand]

\* (plaintext token, digest) for the n-th draw of rand::random()
generate_api_key(n) == <<ApiKey(n), hash_token(ApiKey(n))>>

Bearer(token) == [scheme |-> "Bearer ", token |-> token]

\* DEADDROP_ADMIN_SECRET: unset, or a string chosen by the operator
NoSecret == [set |-> FALSE]
Secret(n) == [set |-> TRUE, value |-> [prefix |-> "adm_", rand |-> n]]
AdminSecrets == {NoSecret, Secret(1)}

VARIABLES
  nameKey,     \* agent:name:{name} -> agent_id
  agentRec,    \* agent:{agent_id} -> hash of the agent's fields
  authKey,     \* auth:{digest} -> agent_id
  created,     \* agents:created, the sorted set of agent ids
  message,     \* message:{message_id} -> hash of the message's fields
  inbox,       \* inbox:{agent_id} -> list of message ids (absent = empty)
  rl,          \* rl:{sender}:{minute} -> [count, ttl]
  now,         \* the wall clock, in seconds
  adminSecret, \* the environment variable DEADDROP_ADMIN_SECRET
  pc,          \* per connection: the step its request is at
  loc,         \* per connection: the request's inputs and local variables
  resp,        \* per connection: the response of its last finished request
  ops,         \* per connection: the store commands its current/last request issued
  nextAgent,   \* the next fresh uuid / random key of register
  nextMsg,     \* the next fresh uuid of send
  nSends,      \* send requests started so far
  sent,        \* history: message_id -> the from, to and body its send gave it
  nPolls,      \* poll requests started so far
  regLog,      \* history: the finished register requests that passed validation
  rlLog,       \* history: per sender, when its sends reached the rate limiter
  appended,    \* history: per agent, the message ids RPUSHed to its inbox, in order
  delivered    \* history: per agent, the message ids returned by its polls, in order

storeVars == <<nameKey, agentRec, authKey, created, message, inbox, rl>>
procVars == <<pc, loc, resp, ops>>
envVars == <<now, adminSecret>>
histVars ==
  <<nextAgent, nextMsg, nSends, sent, nPolls, regLog, rlLog, appended, delivered>>
vars == <<storeVars, envVars, procVars, histVars>>

NoResp == [op |-> "none", status |-> 0]

(***************************************************************************)
(* Register (routes/register.rs)                                           *)
(***************************************************************************)
LongName == [i \in 1..(NameMaxLen + 1) |-> "a"]
LongDesc == [i \in 1..(DescMaxLen + 1) |-> "d"]

RawNames ==
  { <<"b", "o", "t">>, <<"c", "a", "t">>,
    <<" ", "b", "o", "t", " ">>,
    <<"a", "b">> }
RawDescs == { <<"d">>, <<" ">> }

\* a name check that looks at the length only
ValidNameLengthOnly(name) ==
  /\ Len(name) >= NameMinLen
  /\ Len(name) <= NameMaxLen

ValidName(name) ==
  /\ Len(name) >= NameMinLen
  /\ Len(name) <= NameMaxLen
  /\ \A i \in 1..Len(name) : name[i] \in AsciiAlnum \cup {"-", "_"}

ValidDescription(description) ==
  /\ description # <<>>
  /\ Len(description) <= DescMaxLen

\* the handler returns r; the connection holds the response until it is read
Finish(p, r) ==
  /\ pc' = [pc EXCEPT ![p] = "done"]
  /\ resp' = [resp EXCEPT ![p] = r]

Goto(p, label) ==
  /\ pc' = [pc EXCEPT ![p] = label]
  /\ UNCHANGED resp

Issue(p, cmd) == ops' = [ops EXCEPT ![p] = Append(@, cmd)]

\* a register that reserves the name before it validates the description
RegStartReserveFirst(p, rawName, rawDesc) ==
  /\ pc[p] = "idle"
  /\ nextAgent <= MaxRegs
  /\ LET name == trim(rawName)
         description == trim(rawDesc)
         key == generate_api_key(nextAgent)
     IN IF ~ValidName(name)
        THEN /\ Finish(p, [op |-> "register", status |-> 400])
             /\ loc' = [loc EXCEPT ![p] =
                   [op |-> "register", payload |-> [name |-> rawName,
                                                    description |-> rawDesc]]]
             /\ UNCHANGED <<nextAgent, nameKey, ops>>
        ELSE IF ~ValidDescription(description)
        THEN /\ Finish(p, [op |-> "register", status |-> 400])
             /\ loc' = [loc EXCEPT ![p] =
                   [op |-> "register", payload |-> [name |-> rawName,
                                                    description |-> rawDesc]]]
             /\ nameKey' = IF name \in DOMAIN nameKey THEN nameKey
                           ELSE Put(nameKey, name, nextAgent)
             /\ Issue(p, "SETNX")
             /\ UNCHANGED nextAgent
        ELSE /\ Goto(p, "reg_setnx")
             /\ loc' = [loc EXCEPT ![p] =
                   [op |-> "register", name |-> name, description |-> description,
                    payload |-> [name |-> rawName, description |-> rawDesc],
                    agent_id |-> nextAgent, api_key |-> key[1],
                    auth_hash |-> key[2], created_at |-> now,
                    prior |-> {r.agent_id : r \in
                                {x \in regLog : x.status = 201 /\ x.name = name}}]]
             /\ nextAgent' = nextAgent + 1
             /\ UNCHANGED <<nameKey, ops>>
  /\ UNCHANGED <<agentRec, authKey, created, message, inbox, rl>>
  /\ UNCHANGED <<envVars, nextMsg, nSends, sent, nPolls, regLog, appended, delivered, rlLog>>

\* lines 12-58: validation, then the agent id, the API key and created_at
RegStart(p, rawName, rawDesc) ==
  /\ pc[p] = "idle"
  /\ nextAgent <= MaxRegs
  /\ LET name == trim(rawName)
         description == trim(rawDesc)
         key == generate_api_key(nextAgent)
     IN IF ~ValidName(name) \/ ~ValidDescription(description)
        THEN /\ Finish(p, [op |-> "register", status |-> 400])
             /\ loc' = [loc EXCEPT ![p] =
                   [op |-> "register", payload |-> [name |-> rawName,
                                                    description |-> rawDesc]]]
             /\ UNCHANGED nextAgent
        ELSE /\ Goto(p, "reg_setnx")
             /\ loc' = [loc EXCEPT ![p] =
                   [op |-> "register", name |-> name, description |-> description,
                    payload |-> [name |-> rawName, description |-> rawDesc],
                    agent_id |-> nextAgent, api_key |-> key[1],
                    auth_hash |-> key[2], created_at |-> now,
                    \* history: the registrations of this name already answered 201
                    prior |-> {r.agent_id : r \in
                                {x \in regLog : x.status = 201 /\ x.name = name}}]]
             /\ nextAgent' = nextAgent + 1
  /\ UNCHANGED ops
  /\ UNCHANGED <<storeVars, envVars, nextMsg, nSends, sent, nPolls, regLog, appended, delivered, rlLog>>

\* a SET in place of the SETNX: the reservation is overwritten
RegSetNxOverwrite(p) ==
  /\ pc[p] = "reg_setnx"
  /\ Issue(p, "SETNX")
  /\ nameKey' = Put(nameKey, loc[p].name, loc[p].agent_id)
  /\ Goto(p, "reg_hset")
  /\ UNCHANGED <<regLog>>
  /\ UNCHANGED <<agentRec, authKey, created, message, inbox, rl, envVars, loc,
                 nextAgent, nextMsg, nSends, sent, nPolls, appended, delivered, rlLog>>

\* lines 60-78: SETNX agent:name:{name} agent_id; 409 when it was not set
RegSetNx(p) ==
  /\ pc[p] = "reg_setnx"
  /\ Issue(p, "SETNX")
  /\ IF loc[p].name \notin DOMAIN nameKey
     THEN /\ nameKey' = Put(nameKey, loc[p].name, loc[p].agent_id)
          /\ Goto(p, "reg_hset")
          /\ UNCHANGED regLog
     ELSE /\ Finish(p, [op |-> "register", status |-> 409])
          /\ regLog' = regLog \cup
               {[agent_id |-> loc[p].agent_id, name |-> loc[p].name, status |-> 409]}
          /\ UNCHANGED nameKey
  /\ UNCHANGED <<agentRec, authKey, created, message, inbox, rl, envVars, loc,
                 nextAgent, nextMsg, nSends, sent, nPolls, appended, delivered, rlLog>>

\* an HSET that stores the key itself in the auth_hash field
RegHsetPlaintext(p) ==
  /\ pc[p] = "reg_hset"
  /\ Issue(p, "HSET")
  /\ agentRec' = Put(agentRec, loc[p].agent_id,
        [name |-> loc[p].name, description |-> loc[p].description,
         active |-> "true", created_at |-> loc[p].created_at,
         auth_hash |-> loc[p].api_key])
  /\ Goto(p, "reg_set")
  /\ UNCHANGED <<nameKey, authKey, created, message, inbox, rl, envVars, loc, histVars>>

\* lines 83-93: HSET agent:{agent_id} name description active created_at auth_hash
RegHset(p) ==
  /\ pc[p] = "reg_hset"
  /\ Issue(p, "HSET")
  /\ agentRec' = Put(agentRec, loc[p].agent_id,
        [name |-> loc[p].name, description |-> loc[p].description,
         active |-> "true", created_at |-> loc[p].created_at,
         auth_hash |-> loc[p].auth_hash])
  /\ Goto(p, "reg_set")
  /\ UNCHANGED <<nameKey, authKey, created, message, inbox, rl, envVars, loc, histVars>>

\* line 94: SET auth:{auth_hash} agent_id
RegSetAuth(p) ==
  /\ pc[p] = "reg_set"
  /\ Issue(p, "SET")
  /\ authKey' = Put(authKey, loc[p].auth_hash, loc[p].agent_id)
  /\ Goto(p, "reg_zadd")
  /\ UNCHANGED <<nameKey, agentRec, created, message, inbox, rl, envVars, loc, histVars>>

\* lines 95-118: ZADD agents:created, then the 201 response
RegZadd(p) ==
  /\ pc[p] = "reg_zadd"
  /\ Issue(p, "ZADD")
  /\ created' = created \cup {loc[p].agent_id}
  /\ Finish(p, [op |-> "register", status |-> 201,
                agent_id |-> loc[p].agent_id, api_key |-> loc[p].api_key,
                name |-> loc[p].name, description |-> loc[p].description,
                active |-> TRUE, created_at |-> loc[p].created_at])
  /\ regLog' = regLog \cup
       {[agent_id |-> loc[p].agent_id, name |-> loc[p].name, status |-> 201,
         api_key |-> loc[p].api_key]}
  /\ UNCHANGED <<nameKey, agentRec, authKey, message, inbox, rl, envVars, loc,
                 nextAgent, nextMsg, nSends, sent, nPolls, appended, delivered, rlLog>>

\* the response is read; the connection is free for the next request
Return(p) ==
  /\ pc[p] = "done"
  /\ pc' = [pc EXCEPT ![p] = "idle"]
  /\ resp' = [resp EXCEPT ![p] = NoResp]
  /\ loc' = [loc EXCEPT ![p] = EmptyMap]
  /\ ops' = [ops EXCEPT ![p] = <<>>]
  /\ UNCHANGED <<storeVars, envVars, histVars>>

RegisterOf(p, names, descs) ==
  \/ \E rawName \in names, rawDesc \in descs : RegStart(p, rawName, rawDesc)
  \/ RegSetNx(p)
  \/ RegHset(p)
  \/ RegSetAuth(p)
  \/ RegZadd(p)

Register(p) == RegisterOf(p, RawNames, RawDescs)

\* the store as FLUSHDB leaves it (tests/api.rs test_server), every connection idle
InitReg ==
  /\ nameKey = EmptyMap
  /\ agentRec = EmptyMap
  /\ authKey = EmptyMap
  /\ created = {}
  /\ message = EmptyMap
  /\ inbox = EmptyMap
  /\ rl = EmptyMap
  /\ now = 0
  /\ adminSecret = NoSecret
  /\ pc = [p \in Procs |-> "idle"]
  /\ loc = [p \in Procs |-> EmptyMap]
  /\ resp = [p \in Procs |-> NoResp]
  /\ ops = [p \in Procs |-> <<>>]
  /\ nextAgent = 1
  /\ nextMsg = 1
  /\ nSends = 0
  /\ sent = EmptyMap
  /\ nPolls = 0
  /\ regLog = {}
  /\ rlLog = EmptyMap
  /\ appended = EmptyMap
  /\ delivered = EmptyMap

NextReg == \E p \in Procs : Register(p) \/ Return(p)

SpecReg == InitReg /\ [][NextReg]_vars

\* lines 96-97: exec returns Err. The batch is a plain pipeline, so the server
\* has run the commands that reached it: none, HSET, or HSET and SET
RegExecErr(p) ==
  /\ pc[p] \in {"reg_hset", "reg_set", "reg_zadd"}
  /\ Goto(p, "reg_del")
  /\ UNCHANGED <<storeVars, envVars, loc, ops, histVars>>

\* lines 95-97: the server runs the ZADD too, and the reply does not arrive
RegZaddErr(p) ==
  /\ pc[p] = "reg_zadd"
  /\ Issue(p, "ZADD")
  /\ created' = created \cup {loc[p].agent_id}
  /\ Goto(p, "reg_del")
  /\ UNCHANGED <<nameKey, agentRec, authKey, message, inbox, rl, envVars, loc, histVars>>

\* lines 98-105: DEL agent:name:{name}, its result dropped, then 503;
\* deleted is whether the server ran the DEL
RegDel(p, deleted) ==
  /\ pc[p] = "reg_del"
  /\ Issue(p, "DEL")
  /\ nameKey' = IF deleted THEN Del(nameKey, loc[p].name) ELSE nameKey
  /\ loc' = [loc EXCEPT ![p] = Put(@, "deleted", deleted)]
  /\ Finish(p, [op |-> "register", status |-> 503])
  /\ regLog' = regLog \cup
       {[agent_id |-> loc[p].agent_id, name |-> loc[p].name, status |-> 503]}
  /\ UNCHANGED <<agentRec, authKey, created, message, inbox, rl, envVars,
                 nextAgent, nextMsg, nSends, sent, nPolls, appended, delivered, rlLog>>

\* SpecRegFail: two clients register while the store connection may fail
\* during or after the batch of step 3
FailNames == { <<"b", "o", "t">>, <<"c", "a", "t">> }
FailDescs == { <<"d">> }

NextRegFail ==
  \/ \E p \in {"p1", "p2"} : RegisterOf(p, FailNames, FailDescs)
  \/ \E p \in {"p1", "p2"} : RegExecErr(p)
  \/ \E p \in {"p1", "p2"} : RegZaddErr(p)
  \/ \E p \in {"p1", "p2"}, deleted \in BOOLEAN : RegDel(p, deleted)
  \/ \E p \in {"p1", "p2"} : Return(p)

SpecRegFail == InitReg /\ [][NextRegFail]_vars

\* SpecRegVal: two clients register with names and descriptions on both
\* sides of every limit of the validation
ValNames ==
  { <<"b", "o", "t">>, <<" ", "b", "o", "t", " ">>, <<"a", "b">>,
    <<" ", "a", "b", " ">>, <<"b", "!", "t">>, <<"b", " ", "t">>, LongName }
ValDescs == { <<"d">>, <<" ">>, <<>>, LongDesc }

NextRegVal ==
  \/ \E p \in {"p1", "p2"} : RegisterOf(p, ValNames, ValDescs)
  \/ \E p \in {"p1", "p2"} : Return(p)

SpecRegVal == InitReg /\ [][NextRegVal]_vars


(***************************************************************************)
(* C1: a register whose SETNX finds the name reserved answers 409, issues  *)
(* no other store command and leaves every key of the store as it was (the *)
(* first agent's record, its auth key, agents:created and the reservation  *)
(* included).                                                              *)
(***************************************************************************)
C1_DuplicateNameRejected ==
  [][\A p \in Procs :
       (/\ pc[p] = "reg_setnx"
        /\ pc'[p] # "reg_setnx"
        /\ loc[p].name \in DOMAIN nameKey)
       => /\ pc'[p] = "done"
          /\ resp'[p].status = 409
          /\ ops'[p] = <<"SETNX">>
          /\ storeVars' = storeVars]_vars

\* a request that arrived after the name's registration was answered 201 has
\* been answered 409, and the first agent's keys are in the store
C1_Witness ==
  \E p \in Procs :
    /\ pc[p] = "done"
    /\ resp[p].op = "register"
    /\ resp[p].status = 409
    /\ \E a \in loc[p].prior :
         /\ nameKey[loc[p].name] = a
         /\ a \in DOMAIN agentRec
         /\ a \in created

(***************************************************************************)
(* C2: under any interleaving of register requests, at most one request    *)
(* per name is answered 201 and every other finished one 409; the          *)
(* reservation holds the id of the one request that won it, and no two     *)
(* agent records carry the same name.                                      *)
(***************************************************************************)
C2_NameUnique ==
  /\ \A r1, r2 \in regLog :
       (r1.status = 201 /\ r2.status = 201 /\ r1.name = r2.name) => r1 = r2
  /\ \A r \in regLog :
       /\ r.status \in {201, 409}
       /\ r.name \in DOMAIN nameKey
       /\ (r.status = 201) = (nameKey[r.name] = r.agent_id)
  /\ \A p \in Procs :
       pc[p] \in {"reg_hset", "reg_set", "reg_zadd"}
       => /\ loc[p].name \in DOMAIN nameKey
          /\ nameKey[loc[p].name] = loc[p].agent_id
  /\ \A a1, a2 \in DOMAIN agentRec :
       agentRec[a1].name = agentRec[a2].name => a1 = a2

\* two requests raced for one name: the one that drew its agent id first lost
C2_Witness ==
  \E r1, r2 \in regLog :
    /\ r1.name = r2.name
    /\ r1.status = 201
    /\ r2.status = 409
    /\ r2.agent_id < r1.agent_id

(***************************************************************************)
(* Authentication of a protected request (auth.rs verify_bearer, and the   *)
(* header extraction that opens send, poll and set_active)                 *)
(***************************************************************************)
NoHeader == [scheme |-> "none"]

Get(f, k) == IF k \in DOMAIN f THEN f[k] ELSE <<>>

\* the header is absent, or strip_prefix("Bearer ") fails, or the token does
\* not start with dd_key_: 401 before the store is reached
HeaderRejected(header) ==
  IF header = NoHeader THEN TRUE
  ELSE IF header.scheme # "Bearer " THEN TRUE
  ELSE header.token.prefix # "dd_key_"

\* messages.rs 20-30 / 202-212 and auth.rs 22-29
AuthStart(p, op, header, args) ==
  /\ pc[p] = "idle"
  /\ IF HeaderRejected(header)
     THEN /\ Finish(p, [op |-> op, status |-> 401])
          /\ loc' = [loc EXCEPT ![p] = [op |-> op, header |-> header]]
     ELSE /\ Goto(p, "auth")
          /\ loc' = [loc EXCEPT ![p] =
                args @@ [op |-> op, header |-> header, token |-> header.token]]
  /\ UNCHANGED ops

\* poll, lines 223-232: take defaults to 1 and must be 1..10
NoTake == 0 - 1
TakeOf(take) == IF take = NoTake THEN TakeDefault ELSE take
ValidTake(take) == TakeOf(take) >= TakeMin /\ TakeOf(take) <= TakeMax

\* a verification that also refuses the key of an agent that is not active
AuthGetActiveOnly(p) ==
  /\ pc[p] = "auth"
  /\ Issue(p, "GET")
  /\ LET h == hash_token(loc[p].token) IN
     IF \/ h \notin DOMAIN authKey
        \/ authKey[h] \notin DOMAIN agentRec
        \/ agentRec[authKey[h]].active # "true"
     THEN /\ Finish(p, [op |-> loc[p].op, status |-> 401])
          /\ UNCHANGED loc
     ELSE /\ loc' = [loc EXCEPT ![p] = @ @@ [agent_id |-> authKey[h]]]
          /\ IF loc[p].op = "send"
             THEN Goto(p, "send_rl")
             ELSE IF loc[p].op = "set_active"
             THEN Goto(p, "sa_active")
             ELSE IF loc[p].op = "update"
             THEN IF ~ValidDescription(trim(loc[p].payload.description))
                  THEN Finish(p, [op |-> "update", status |-> 400])
                  ELSE Goto(p, "upd_description")
             ELSE IF ~ValidTake(loc[p].take)
                  THEN Finish(p, [op |-> "poll", status |-> 400])
                  ELSE Goto(p, "poll_lrange")
  /\ UNCHANGED <<storeVars, envVars, histVars>>

\* auth.rs 30-40: GET auth:{sha256(token)}; 401 when there is no such key
AuthGet(p) ==
  /\ pc[p] = "auth"
  /\ Issue(p, "GET")
  /\ LET h == hash_token(loc[p].token) IN
     IF h \notin DOMAIN authKey
     THEN /\ Finish(p, [op |-> loc[p].op, status |-> 401])
          /\ UNCHANGED loc
     ELSE /\ loc' = [loc EXCEPT ![p] = @ @@ [agent_id |-> authKey[h]]]
          /\ IF loc[p].op = "send"
             THEN Goto(p, "send_rl")
             ELSE IF loc[p].op = "set_active"
             THEN Goto(p, "sa_active")
             ELSE IF loc[p].op = "update"
             THEN IF ~ValidDescription(trim(loc[p].payload.description))
                  THEN Finish(p, [op |-> "update", status |-> 400])
                  ELSE Goto(p, "upd_description")
             ELSE IF ~ValidTake(loc[p].take)
                  THEN Finish(p, [op |-> "poll", status |-> 400])
                  ELSE Goto(p, "poll_lrange")
  /\ UNCHANGED <<storeVars, envVars, histVars>>

\* a failure of the store reported as a bad credential
AuthUnavailableAs401(p) ==
  /\ pc[p] = "auth"
  /\ \/ UNCHANGED ops
     \/ Issue(p, "GET")
  /\ Finish(p, [op |-> loc[p].op, status |-> 401])
  /\ UNCHANGED <<storeVars, envVars, loc, histVars>>

\* auth.rs 34-38: get_connection fails (no command is sent), or the GET
\* fails: 503
AuthUnavailable(p) ==
  /\ pc[p] = "auth"
  /\ \/ UNCHANGED ops
     \/ Issue(p, "GET")
  /\ Finish(p, [op |-> loc[p].op, status |-> 503])
  /\ UNCHANGED <<storeVars, envVars, loc, histVars>>

(***************************************************************************)
(* Activate / deactivate (routes/agent.rs set_active)                      *)
(***************************************************************************)
ActiveStr(active) == IF active THEN "true" ELSE "false"

\* lines 14-32
SetActiveStart(p, header, active) ==
  /\ AuthStart(p, "set_active", header, [active |-> active])
  /\ UNCHANGED <<storeVars, envVars, histVars>>

\* a write that replaces the record by one holding the active field alone
SetActiveHsetReplace(p) ==
  /\ pc[p] = "sa_active"
  /\ Issue(p, "HSET")
  /\ agentRec' = Put(agentRec, loc[p].agent_id, [active |-> ActiveStr(loc[p].active)])
  /\ Goto(p, "sa_updated")
  /\ UNCHANGED <<nameKey, authKey, created, message, inbox, rl, envVars, loc, histVars>>

\* line 46: HSET agent:{agent_id} active true|false
SetActiveHset(p) ==
  /\ pc[p] = "sa_active"
  /\ Issue(p, "HSET")
  /\ agentRec' = Put(agentRec, loc[p].agent_id,
        [active |-> ActiveStr(loc[p].active)] @@ Get(agentRec, loc[p].agent_id))
  /\ Goto(p, "sa_updated")
  /\ UNCHANGED <<nameKey, authKey, created, message, inbox, rl, envVars, loc, histVars>>

\* lines 47-59: HSET agent:{agent_id} updated_at now, then 204
SetActiveUpdated(p) ==
  /\ pc[p] = "sa_updated"
  /\ Issue(p, "HSET")
  /\ agentRec' = Put(agentRec, loc[p].agent_id,
        [updated_at |-> now] @@ Get(agentRec, loc[p].agent_id))
  /\ Finish(p, [op |-> "set_active", status |-> 204])
  /\ UNCHANGED <<nameKey, authKey, created, message, inbox, rl, envVars, loc, histVars>>

SetActive(p, headers) ==
  \/ \E header \in headers, active \in BOOLEAN : SetActiveStart(p, header, active)
  \/ SetActiveHset(p)
  \/ SetActiveUpdated(p)

(***************************************************************************)
(* Update (routes/agent.rs update); the description is validated in        *)
(* AuthGet, as soon as verify_bearer has returned (lines 156-164)          *)
(***************************************************************************)
\* lines 130-154
UpdateStart(p, header, rawDesc) ==
  /\ AuthStart(p, "update", header, [payload |-> [description |-> rawDesc]])
  /\ UNCHANGED <<storeVars, envVars, histVars>>

\* line 177: HSET agent:{agent_id} description, the trimmed description
UpdateHsetDescription(p) ==
  /\ pc[p] = "upd_description"
  /\ Issue(p, "HSET")
  /\ agentRec' = Put(agentRec, loc[p].agent_id,
        [description |-> trim(loc[p].payload.description)]
          @@ Get(agentRec, loc[p].agent_id))
  /\ Goto(p, "upd_updated")
  /\ UNCHANGED <<nameKey, authKey, created, message, inbox, rl, envVars, loc, histVars>>

\* lines 178-189: HSET agent:{agent_id} updated_at now, then 204
UpdateHsetUpdated(p) ==
  /\ pc[p] = "upd_updated"
  /\ Issue(p, "HSET")
  /\ agentRec' = Put(agentRec, loc[p].agent_id,
        [updated_at |-> now] @@ Get(agentRec, loc[p].agent_id))
  /\ Finish(p, [op |-> "update", status |-> 204])
  /\ UNCHANGED <<nameKey, authKey, created, message, inbox, rl, envVars, loc, histVars>>

Update(p, headers, descs) ==
  \/ \E header \in headers, rawDesc \in descs : UpdateStart(p, header, rawDesc)
  \/ UpdateHsetDescription(p)
  \/ UpdateHsetUpdated(p)

(***************************************************************************)
(* Search (routes/search.rs)                                               *)
(***************************************************************************)
\* the characters sanitize_phrase strips
Special ==
  { "@", "!", "{", "}", "(", ")", "|", "-", "=", ">", "[", "]", ":", ";", "*",
    "~", "\\", "\"", "'", "/", "<", ".", ",", "$", "%", "^", "&", "#", "+", "?" }

\* str::split_whitespace: the maximal runs of non-whitespace characters
RECURSIVE split_whitespace(_)
split_whitespace(s) ==
  IF s = <<>> THEN <<>>
  ELSE IF Head(s) \in Whitespace THEN split_whitespace(Tail(s))
  ELSE LET stops == {i \in 1..Len(s) : s[i] \in Whitespace}
           n == IF stops = {} THEN Len(s) + 1
                ELSE CHOOSE i \in stops : \A j \in stops : i <= j
       IN <<SubSeq(s, 1, n - 1)>> \o split_whitespace(SubSeq(s, n, Len(s)))

\* [&str]::join(" ")
RECURSIVE join(_)
join(words) ==
  IF words = <<>> THEN <<>>
  ELSE IF Len(words) = 1 THEN words[1]
  ELSE words[1] \o <<" ">> \o join(Tail(words))

\* a sanitizer that strips the special characters and leaves the whitespace
sanitize_phraseNoCollapse(phrase) ==
  SelectSeq(phrase, LAMBDA c : c \notin Special)

\* lines 7-19
sanitize_phrase(phrase) ==
  join(split_whitespace(SelectSeq(phrase, LAMBDA c : c \notin Special)))

NoQuery == [none |-> TRUE]

\* a query without the active filter
build_queryUnfiltered(phrases) ==
  LET sanitized == SelectSeq([i \in 1..Len(phrases) |-> sanitize_phrase(phrases[i])],
                             LAMBDA x : x # <<>>)
  IN IF sanitized = <<>> THEN NoQuery
     ELSE [none |-> FALSE, tags |-> {}, phrases |-> sanitized]

\* lines 22-36: "@active:{true} (p1 | p2 | ...)", or None
build_query(phrases) ==
  LET sanitized == SelectSeq([i \in 1..Len(phrases) |-> sanitize_phrase(phrases[i])],
                             LAMBDA x : x # <<>>)
  IN IF sanitized = <<>> THEN NoQuery
     ELSE [none |-> FALSE, tags |-> {<<"active", "true">>}, phrases |-> sanitized]

\* the index idx:agents of lib.rs 9-36: the words of a TEXT field
Tokens(text) ==
  split_whitespace([i \in 1..Len(text) |-> IF text[i] \in Special THEN " " ELSE text[i]])

\* the words of the phrase occur next to each other, in order, in the field
PhraseIn(phrase, text) ==
  LET w == split_whitespace(phrase)
      t == Tokens(text)
  IN \E i \in 1..(Len(t) + 1 - Len(w)) : SubSeq(t, i, i + Len(w) - 1) = w

\* the documents FT.SEARCH idx:agents selects for the query: the hashes
\* agent:{id} that carry every tag of the query and match one of its phrases
\* in name or description
Matching(query, agents) ==
  {a \in DOMAIN agents :
     /\ \A tag \in query.tags : tag[1] \in DOMAIN agents[a] /\ agents[a][tag[1]] = tag[2]
     /\ \E i \in 1..Len(query.phrases) :
          \/ PhraseIn(query.phrases[i], agents[a].name)
          \/ PhraseIn(query.phrases[i], agents[a].description)}

\* lines 115-142: the validation of the phrases and the query
SearchStart(p, phrases) ==
  /\ pc[p] = "idle"
  /\ loc' = [loc EXCEPT ![p] = [op |-> "search", phrases |-> phrases,
                                 query |-> build_query(phrases)]]
  /\ IF \/ phrases = <<>>
        \/ Len(phrases) > PhrasesMax
        \/ \E i \in 1..Len(phrases) : phrases[i] = <<>> \/ Len(phrases[i]) > PhraseMaxLen
        \/ build_query(phrases) = NoQuery
     THEN Finish(p, [op |-> "search", status |-> 400])
     ELSE Goto(p, "search_ft")
  /\ UNCHANGED <<storeVars, envVars, ops, histVars>>

\* lines 153-180: FT.SEARCH idx:agents query LIMIT 0 50, decoded into
\* {agent_id, name, description} records
SearchFt(p) ==
  /\ pc[p] = "search_ft"
  /\ Issue(p, "FT.SEARCH")
  /\ \E hits \in SUBSET Matching(loc[p].query, agentRec) :
       /\ Cardinality(hits) =
            IF Cardinality(Matching(loc[p].query, agentRec)) <= SearchLimit
            THEN Cardinality(Matching(loc[p].query, agentRec)) ELSE SearchLimit
       /\ loc' = [loc EXCEPT ![p] = @ @@
             [results |-> {[agent_id |-> a, name |-> agentRec[a].name,
                            description |-> agentRec[a].description] : a \in hits}]]
  /\ Goto(p, "search_zcard")
  /\ UNCHANGED <<storeVars, envVars, histVars>>

\* lines 182-207: ZCARD agents:created for the onboarding message, then 200
SearchZcard(p) ==
  /\ pc[p] = "search_zcard"
  /\ Issue(p, "ZCARD")
  /\ Finish(p, [op |-> "search", status |-> 200, results |-> loc[p].results,
                message |-> Cardinality(created) < 100])
  /\ UNCHANGED <<storeVars, envVars, loc, histVars>>

\* lines 145-152: get_connection fails, no command is sent: 503
SearchUnavailable(p) ==
  /\ pc[p] = "search_ft"
  /\ loc' = [loc EXCEPT ![p] = Put(@, "failed_at", "get_connection")]
  /\ Finish(p, [op |-> "search", status |-> 503])
  /\ UNCHANGED <<storeVars, envVars, ops, histVars>>

\* lines 154-168: the FT.SEARCH is sent once and fails: 500
SearchFtFails(p) ==
  /\ pc[p] = "search_ft"
  /\ Issue(p, "FT.SEARCH")
  /\ loc' = [loc EXCEPT ![p] = Put(@, "failed_at", "search_ft")]
  /\ Finish(p, [op |-> "search", status |-> 500])
  /\ UNCHANGED <<storeVars, envVars, histVars>>

\* line 179: the ZCARD is sent once and fails; unwrap_or(0) takes the count
\* for 0 and the search answers 200 with the onboarding message
SearchZcardFails(p) ==
  /\ pc[p] = "search_zcard"
  /\ Issue(p, "ZCARD")
  /\ loc' = [loc EXCEPT ![p] = Put(@, "failed_at", "search_zcard")]
  /\ Finish(p, [op |-> "search", status |-> 200, results |-> loc[p].results,
                message |-> TRUE])
  /\ UNCHANGED <<storeVars, envVars, histVars>>

Search(p, inputs) ==
  \/ \E phrases \in inputs : SearchStart(p, phrases)
  \/ SearchFt(p)
  \/ SearchZcard(p)

(***************************************************************************)
(* Admin stats (routes/admin.rs stats)                                     *)
(***************************************************************************)
\* a check that takes any bearer value for the secret
StatsStartAnyBearer(p, header) ==
  /\ pc[p] = "idle"
  /\ loc' = [loc EXCEPT ![p] = [op |-> "stats", header |-> header]]
  /\ IF ~adminSecret.set
     THEN Finish(p, [op |-> "stats", status |-> 503])
     ELSE IF header = NoHeader
     THEN Finish(p, [op |-> "stats", status |-> 401])
     ELSE IF header.scheme # "Bearer "
     THEN Finish(p, [op |-> "stats", status |-> 401])
     ELSE Goto(p, "stats_zcard")
  /\ UNCHANGED <<storeVars, envVars, ops, histVars>>

\* lines 23-53: the secret must be configured (503), and the header must be
\* "Bearer " followed by the secret (401)
StatsStart(p, header) ==
  /\ pc[p] = "idle"
  /\ loc' = [loc EXCEPT ![p] = [op |-> "stats", header |-> header]]
  /\ IF ~adminSecret.set
     THEN Finish(p, [op |-> "stats", status |-> 503])
     ELSE IF header = NoHeader
     THEN Finish(p, [op |-> "stats", status |-> 401])
     ELSE IF header.scheme # "Bearer "
     THEN Finish(p, [op |-> "stats", status |-> 401])
     ELSE IF header.token # adminSecret.value
     THEN Finish(p, [op |-> "stats", status |-> 401])
     ELSE Goto(p, "stats_zcard")
  /\ UNCHANGED <<storeVars, envVars, ops, histVars>>

\* line 65: ZCARD agents:created
StatsZcard(p) ==
  /\ pc[p] = "stats_zcard"
  /\ Issue(p, "ZCARD")
  /\ loc' = [loc EXCEPT ![p] = @ @@ [total_agents |-> Cardinality(created)]]
  /\ Goto(p, "stats_active")
  /\ UNCHANGED <<storeVars, envVars, histVars>>

\* lines 68-80: FT.SEARCH idx:agents @active:{true} LIMIT 0 0, the count only
StatsActive(p) ==
  /\ pc[p] = "stats_active"
  /\ Issue(p, "FT.SEARCH")
  /\ loc' = [loc EXCEPT ![p] = @ @@
        [active_agents |->
           Cardinality({a \in DOMAIN agentRec :
                          "active" \in DOMAIN agentRec[a] /\ agentRec[a].active = "true"})]]
  /\ Goto(p, "stats_messages")
  /\ UNCHANGED <<storeVars, envVars, histVars>>

\* lines 83-87: KEYS message:*
StatsMessages(p) ==
  /\ pc[p] = "stats_messages"
  /\ Issue(p, "KEYS")
  /\ loc' = [loc EXCEPT ![p] = @ @@ [total_messages |-> Cardinality(DOMAIN message)]]
  /\ Goto(p, "stats_inboxes")
  /\ UNCHANGED <<storeVars, envVars, histVars>>

\* lines 90-93: KEYS inbox:* (a list that has become empty is no key)
StatsInboxes(p) ==
  /\ pc[p] = "stats_inboxes"
  /\ Issue(p, "KEYS")
  /\ LET inbox_keys == {a \in DOMAIN inbox : inbox[a] # <<>>} IN
     /\ loc' = [loc EXCEPT ![p] = @ @@
           [inbox_keys |-> inbox_keys, total_queued |-> 0, entries |-> {}]]
     /\ IF inbox_keys = {} THEN Goto(p, "stats_docs") ELSE Goto(p, "stats_llen")
  /\ UNCHANGED <<storeVars, envVars, histVars>>

\* lines 98-105: LLEN of the next key, in the order KEYS listed them
StatsLlen(p) ==
  /\ pc[p] = "stats_llen"
  /\ Issue(p, "LLEN")
  /\ \E key \in loc[p].inbox_keys :
       LET count == Len(Get(inbox, key)) IN
       /\ loc' = [loc EXCEPT ![p].inbox_keys = @ \ {key},
                             ![p].total_queued = IF count > 0 THEN @ + count ELSE @,
                             ![p].entries =
                                IF count > 0
                                THEN @ \cup {[agent_id |-> key, count |-> count]}
                                ELSE @]
       /\ IF loc[p].inbox_keys = {key}
          THEN Goto(p, "stats_docs")
          ELSE Goto(p, "stats_llen")
  /\ UNCHANGED <<storeVars, envVars, histVars>>

\* the first n entries in an order of non-increasing count; entries of equal
\* count come in the order KEYS listed them, which is any order
RECURSIVE SortedTop(_, _)
SortedTop(entries, n) ==
  IF n = 0 \/ entries = {}
  THEN {<<>>}
  ELSE UNION {{<<e>> \o t : t \in SortedTop(entries \ {e}, n - 1)} :
                e \in {x \in entries : \A y \in entries : y.count <= x.count}}

\* a list that is sorted and not truncated
BusiestAll(entries) == SortedTop(entries, Cardinality(entries))

\* the lists sort_by(count descending) and truncate(10) can leave
Busiest(entries) == SortedTop(entries, BusiestMax)

\* lines 108-165: FT.SEARCH idx:agents * LIMIT 0 0, the three INFO reads of
\* the server's own counters, and the response
StatsDocs(p) ==
  /\ pc[p] = "stats_docs"
  /\ ops' = [ops EXCEPT ![p] = @ \o <<"FT.SEARCH", "INFO", "INFO", "INFO">>]
  /\ \E b \in Busiest(loc[p].entries) :
       Finish(p, [op |-> "stats", status |-> 200,
                  total |-> loc[p].total_agents,
                  active |-> loc[p].active_agents,
                  total_stored |-> loc[p].total_messages,
                  total_queued |-> loc[p].total_queued,
                  busiest |-> b,
                  num_docs |-> Cardinality(DOMAIN agentRec)])
  /\ UNCHANGED <<storeVars, envVars, loc, histVars>>

StatsStages ==
  {"stats_zcard", "stats_active", "stats_messages", "stats_inboxes",
   "stats_llen", "stats_docs"}

Stats(p, headers) ==
  \/ \E header \in headers : StatsStart(p, header)
  \/ StatsZcard(p)
  \/ StatsActive(p)
  \/ StatsMessages(p)
  \/ StatsInboxes(p)
  \/ StatsLlen(p)
  \/ StatsDocs(p)

(***************************************************************************)
(* Send (routes/messages.rs send)                                          *)
(***************************************************************************)
\* chrono::Utc::now().format("%Y%m%d%H%M"): the clock truncated to the minute
Minute(t) == t \div BucketSeconds

HasDuplicates(to) == \E i, j \in 1..Len(to) : i < j /\ to[i] = to[j]

\* a validation without the duplicate check of lines 87-98
SendValidateNoDuplicateCheck(sender_id, to, body) ==
  IF to = <<>> \/ Len(to) > RecipientsMax THEN 400
  ELSE IF sender_id \in Range(to) THEN 403
  ELSE IF trim(body) = <<>> \/ Len(trim(body)) > BodyMaxLen THEN 400
  ELSE 0

\* a validation that looks at the body before the sender
SendValidateBodyFirst(sender_id, to, body) ==
  IF to = <<>> \/ Len(to) > RecipientsMax THEN 400
  ELSE IF HasDuplicates(to) THEN 400
  ELSE IF trim(body) = <<>> \/ Len(trim(body)) > BodyMaxLen THEN 400
  ELSE IF sender_id \in Range(to) THEN 403
  ELSE 0

\* the duplicate check placed before the recipient count
SendFailureDuplicatesFirst(sender_id, to, body) ==
  IF HasDuplicates(to)
  THEN [status |-> 400, error |-> "duplicate recipients are not allowed"]
  ELSE IF to = <<>> \/ Len(to) > RecipientsMax
  THEN [status |-> 400, error |-> "to must contain 1-10 recipients"]
  ELSE IF sender_id \in Range(to)
  THEN [status |-> 403, error |-> "cannot send a message to yourself"]
  ELSE IF trim(body) = <<>> \/ Len(trim(body)) > BodyMaxLen
  THEN [status |-> 400, error |-> "body must be 1-32768 characters"]
  ELSE [status |-> 0, error |-> ""]

\* lines 77-119, in the code's order: the response of the first check that
\* fails; status 0 when the request passes
SendFailure(sender_id, to, body) ==
  IF to = <<>> \/ Len(to) > RecipientsMax
  THEN [status |-> 400, error |-> "to must contain 1-10 recipients"]
  ELSE IF HasDuplicates(to)
  THEN [status |-> 400, error |-> "duplicate recipients are not allowed"]
  ELSE IF sender_id \in Range(to)
  THEN [status |-> 403, error |-> "cannot send a message to yourself"]
  ELSE IF trim(body) = <<>> \/ Len(trim(body)) > BodyMaxLen
  THEN [status |-> 400, error |-> "body must be 1-32768 characters"]
  ELSE [status |-> 0, error |-> ""]

\* the status of lines 77-119; 0 when the request passes
SendValidate(sender_id, to, body) == SendFailure(sender_id, to, body).status

\* lines 14-39
SendStart(p, header, to, body, maxSends) ==
  /\ nSends < maxSends
  /\ nSends' = nSends + 1
  /\ AuthStart(p, "send", header, [to |-> to, body |-> body])
  /\ UNCHANGED <<storeVars, envVars, nextAgent, nextMsg, sent, nPolls, regLog, appended, delivered, rlLog>>

\* a limiter with one counter per minute for all senders together
SendRateLimitShared(p) ==
  /\ pc[p] = "send_rl"
  /\ Issue(p, "INCR+EXPIRE")
  /\ LET rl_key == <<0, Minute(now)>>
         count == (IF rl_key \in DOMAIN rl THEN rl[rl_key].count ELSE 0) + 1
         v == SendValidate(loc[p].agent_id, loc[p].to, loc[p].body)
     IN /\ rl' = Put(rl, rl_key, [count |-> count, expire_at |-> now + RateExpire])
        /\ rlLog' = Put(rlLog, loc[p].agent_id,
                        Append(Get(rlLog, loc[p].agent_id),
                               [at |-> now, limited |-> count > RateLimit]))
        /\ IF count > RateLimit
           THEN Finish(p, [op |-> "send", status |-> 429])
           ELSE IF v # 0
                THEN Finish(p, [op |-> "send", status |-> v,
                                error |-> SendFailure(loc[p].agent_id, loc[p].to,
                                                      loc[p].body).error])
                ELSE Goto(p, "send_check")
        /\ loc' = [loc EXCEPT ![p] = @ @@ [i |-> 1, count |-> count]]
  /\ UNCHANGED <<nameKey, agentRec, authKey, created, message, inbox, envVars>>
  /\ UNCHANGED <<nextAgent, nextMsg, nSends, sent, nPolls, regLog, appended, delivered>>

\* a limiter that increments without setting the expiry
SendRateLimitIncrOnly(p) ==
  /\ pc[p] = "send_rl"
  /\ Issue(p, "INCR")
  /\ LET rl_key == <<loc[p].agent_id, Minute(now)>>
         count == (IF rl_key \in DOMAIN rl THEN rl[rl_key].count ELSE 0) + 1
         v == SendValidate(loc[p].agent_id, loc[p].to, loc[p].body)
     IN /\ rl' = IF rl_key \in DOMAIN rl
                 THEN [rl EXCEPT ![rl_key].count = count]
                 ELSE Put(rl, rl_key, [count |-> count])
        /\ rlLog' = Put(rlLog, loc[p].agent_id,
                        Append(Get(rlLog, loc[p].agent_id),
                               [at |-> now, limited |-> count > RateLimit]))
        /\ IF count > RateLimit
           THEN Finish(p, [op |-> "send", status |-> 429])
           ELSE IF v # 0
                THEN Finish(p, [op |-> "send", status |-> v,
                                error |-> SendFailure(loc[p].agent_id, loc[p].to,
                                                      loc[p].body).error])
                ELSE Goto(p, "send_check")
        /\ loc' = [loc EXCEPT ![p] = @ @@ [i |-> 1, count |-> count]]
  /\ UNCHANGED <<nameKey, agentRec, authKey, created, message, inbox, envVars>>
  /\ UNCHANGED <<nextAgent, nextMsg, nSends, sent, nPolls, regLog, appended, delivered>>

\* a limiter that takes its increment back when it rejects
SendRateLimitRollback(p) ==
  /\ pc[p] = "send_rl"
  /\ Issue(p, "INCR+EXPIRE")
  /\ LET rl_key == <<loc[p].agent_id, Minute(now)>>
         count == (IF rl_key \in DOMAIN rl THEN rl[rl_key].count ELSE 0) + 1
         v == SendValidate(loc[p].agent_id, loc[p].to, loc[p].body)
     IN /\ rl' = IF count > RateLimit
                 THEN Put(rl, rl_key, [count |-> count - 1, expire_at |-> now + RateExpire])
                 ELSE Put(rl, rl_key, [count |-> count, expire_at |-> now + RateExpire])
        /\ rlLog' = Put(rlLog, loc[p].agent_id,
                        Append(Get(rlLog, loc[p].agent_id),
                               [at |-> now, limited |-> count > RateLimit]))
        /\ IF count > RateLimit
           THEN Finish(p, [op |-> "send", status |-> 429])
           ELSE IF v # 0
                THEN Finish(p, [op |-> "send", status |-> v,
                                error |-> SendFailure(loc[p].agent_id, loc[p].to,
                                                      loc[p].body).error])
                ELSE Goto(p, "send_check")
        /\ loc' = [loc EXCEPT ![p] = @ @@ [i |-> 1, count |-> count]]
  /\ UNCHANGED <<nameKey, agentRec, authKey, created, message, inbox, envVars>>
  /\ UNCHANGED <<nextAgent, nextMsg, nSends, sent, nPolls, regLog, appended, delivered>>

\* lines 41-119: MULTI INCR rl:{sender}:{minute}, EXPIRE 120, EXEC; 429 above
\* 12; then the validation of the payload
SendRateLimit(p) ==
  /\ pc[p] = "send_rl"
  /\ Issue(p, "INCR+EXPIRE")
  /\ LET rl_key == <<loc[p].agent_id, Minute(now)>>
         count == (IF rl_key \in DOMAIN rl THEN rl[rl_key].count ELSE 0) + 1
         v == SendValidate(loc[p].agent_id, loc[p].to, loc[p].body)
     IN /\ rl' = Put(rl, rl_key, [count |-> count, expire_at |-> now + RateExpire])
        /\ rlLog' = Put(rlLog, loc[p].agent_id,
                        Append(Get(rlLog, loc[p].agent_id),
                               [at |-> now, limited |-> count > RateLimit]))
        /\ IF count > RateLimit
           THEN Finish(p, [op |-> "send", status |-> 429])
           ELSE IF v # 0
                THEN Finish(p, [op |-> "send", status |-> v,
                                error |-> SendFailure(loc[p].agent_id, loc[p].to,
                                                      loc[p].body).error])
                ELSE Goto(p, "send_check")
        /\ loc' = [loc EXCEPT ![p] = @ @@ [i |-> 1, count |-> count]]
  /\ UNCHANGED <<nameKey, agentRec, authKey, created, message, inbox, envVars>>
  /\ UNCHANGED <<nextAgent, nextMsg, nSends, sent, nPolls, regLog, appended, delivered>>

\* TickStep seconds pass; the store removes the rate counters whose EXPIRE
\* deadline is reached
TickBy(step, maxTime) ==
  /\ now + step <= maxTime
  /\ now' = now + step
  /\ rl' = [k \in {x \in DOMAIN rl : rl[x].expire_at > now + step} |-> rl[k]]
  /\ UNCHANGED <<nameKey, agentRec, authKey, created, message, inbox, adminSecret,
                 procVars, histVars>>

Tick == TickBy(TickStep, MaxTime)

\* a check that accepts every recipient that has a record, active or not
SendCheckExistsOnly(p) ==
  /\ pc[p] = "send_check"
  /\ Issue(p, "HGET")
  /\ LET recipient == loc[p].to[loc[p].i]
         active == IF recipient \in DOMAIN agentRec
                   THEN agentRec[recipient].active ELSE "nil"
     IN IF active = "nil"
        THEN /\ Finish(p, [op |-> "send", status |-> 404, recipient |-> recipient])
             /\ UNCHANGED <<loc, nextMsg, sent>>
        ELSE IF loc[p].i < Len(loc[p].to)
             THEN /\ Goto(p, "send_check")
                  /\ loc' = [loc EXCEPT ![p].i = @ + 1]
                  /\ UNCHANGED <<nextMsg, sent>>
             ELSE /\ Goto(p, "send_hset")
                  /\ loc' = [loc EXCEPT ![p] =
                        [i |-> 1, message_id |-> nextMsg] @@ @]
                  /\ nextMsg' = nextMsg + 1
                  /\ sent' = Put(sent, nextMsg,
                        [from |-> loc[p].agent_id, to |-> loc[p].to,
                         body |-> trim(loc[p].body)])
  /\ UNCHANGED <<storeVars, envVars, nextAgent, nSends, nPolls, regLog, appended, delivered, rlLog>>

\* lines 130-155: HGET agent:{recipient} active, one recipient per round trip;
\* after the last one the message id is generated
SendCheck(p) ==
  /\ pc[p] = "send_check"
  /\ Issue(p, "HGET")
  /\ LET recipient == loc[p].to[loc[p].i]
         active == IF recipient \in DOMAIN agentRec
                   THEN agentRec[recipient].active ELSE "nil"
     IN IF active # "true"
        THEN /\ Finish(p, [op |-> "send", status |-> 404, recipient |-> recipient])
             /\ UNCHANGED <<loc, nextMsg, sent>>
        ELSE IF loc[p].i < Len(loc[p].to)
             THEN /\ Goto(p, "send_check")
                  /\ loc' = [loc EXCEPT ![p].i = @ + 1]
                  /\ UNCHANGED <<nextMsg, sent>>
             ELSE /\ Goto(p, "send_hset")
                  /\ loc' = [loc EXCEPT ![p] =
                        [i |-> 1, message_id |-> nextMsg] @@ @]
                  /\ nextMsg' = nextMsg + 1
                  /\ sent' = Put(sent, nextMsg,
                        [from |-> loc[p].agent_id, to |-> loc[p].to,
                         body |-> trim(loc[p].body)])
  /\ UNCHANGED <<storeVars, envVars, nextAgent, nSends, nPolls, regLog, appended, delivered, rlLog>>

\* line 171: HSET message:{message_id} from to body timestamp
SendHset(p) ==
  /\ pc[p] = "send_hset"
  /\ Issue(p, "HSET")
  /\ message' = Put(message, loc[p].message_id,
        [from |-> loc[p].agent_id, to |-> loc[p].to,
         body |-> trim(loc[p].body), ttl |-> FALSE])
  /\ Goto(p, "send_expire")
  /\ UNCHANGED <<nameKey, agentRec, authKey, created, inbox, rl, envVars, loc, histVars>>

\* line 172: EXPIRE message:{message_id} 604800
SendExpire(p) ==
  /\ pc[p] = "send_expire"
  /\ Issue(p, "EXPIRE")
  /\ message' = IF loc[p].message_id \in DOMAIN message
                THEN [message EXCEPT ![loc[p].message_id].ttl = TRUE]
                ELSE message
  /\ Goto(p, "send_rpush")
  /\ UNCHANGED <<nameKey, agentRec, authKey, created, inbox, rl, envVars, loc, histVars>>

\* an RPUSH that skips the remaining recipients
SendRpushFirstOnly(p) ==
  /\ pc[p] = "send_rpush"
  /\ Issue(p, "RPUSH")
  /\ LET recipient == loc[p].to[loc[p].i] IN
     /\ inbox' = Put(inbox, recipient, Append(Get(inbox, recipient), loc[p].message_id))
     /\ appended' = Put(appended, recipient,
                        Append(Get(appended, recipient), loc[p].message_id))
  /\ Finish(p, [op |-> "send", status |-> 201, message_id |-> loc[p].message_id,
                from |-> loc[p].agent_id, to |-> loc[p].to])
  /\ UNCHANGED loc
  /\ UNCHANGED <<nameKey, agentRec, authKey, created, message, rl, envVars,
                 nextAgent, nextMsg, nSends, sent, nPolls, regLog, delivered, rlLog>>

\* lines 173-193: RPUSH inbox:{recipient} message_id, one per recipient in the
\* order of to; after the last one the 201 response
SendRpush(p) ==
  /\ pc[p] = "send_rpush"
  /\ Issue(p, "RPUSH")
  /\ LET recipient == loc[p].to[loc[p].i] IN
     /\ inbox' = Put(inbox, recipient, Append(Get(inbox, recipient), loc[p].message_id))
     /\ appended' = Put(appended, recipient,
                        Append(Get(appended, recipient), loc[p].message_id))
  /\ IF loc[p].i < Len(loc[p].to)
     THEN /\ Goto(p, "send_rpush")
          /\ loc' = [loc EXCEPT ![p].i = @ + 1]
     ELSE /\ Finish(p, [op |-> "send", status |-> 201,
                        message_id |-> loc[p].message_id,
                        from |-> loc[p].agent_id, to |-> loc[p].to])
          /\ UNCHANGED loc
  /\ UNCHANGED <<nameKey, agentRec, authKey, created, message, rl, envVars,
                 nextAgent, nextMsg, nSends, sent, nPolls, regLog, delivered, rlLog>>

\* the 7-day TTL of a message key runs out
Expire(m) ==
  /\ m \in DOMAIN message
  /\ message[m].ttl
  /\ message' = Del(message, m)
  /\ UNCHANGED <<nameKey, agentRec, authKey, created, inbox, rl, envVars, procVars, histVars>>


(***************************************************************************)
(* Poll (routes/messages.rs poll)                                          *)
(***************************************************************************)
PollStages ==
  {"poll_lrange", "poll_ltrim", "poll_exists", "poll_lpush", "poll_fetch"}

\* a poll carrying this token is between its request and its response
PollInProgress(token) ==
  \E q \in Procs :
    /\ pc[q] \in PollStages \cup {"auth"}
    /\ loc[q].op = "poll"
    /\ loc[q].token = token

\* lines 201-221.  single: the client keeps at most one poll per agent in
\* progress; otherwise polls overlap freely and their number is bounded
PollStart(p, header, take, single) ==
  /\ IF single
     THEN /\ IF HeaderRejected(header) THEN TRUE ELSE ~PollInProgress(header.token)
          /\ UNCHANGED nPolls
     ELSE /\ nPolls < MaxPolls
          /\ nPolls' = nPolls + 1
  /\ AuthStart(p, "poll", header, [take |-> take])
  /\ UNCHANGED <<storeVars, envVars, nextAgent, nextMsg, nSends, sent, regLog, appended, delivered, rlLog>>

\* an LRANGE that waits while another poll of the agent is between its read
\* and its trim
PollLrangeExclusive(p) ==
  /\ pc[p] = "poll_lrange"
  /\ ~\E q \in Procs \ {p} :
        pc[q] = "poll_ltrim" /\ loc[q].agent_id = loc[p].agent_id
  /\ Issue(p, "LRANGE")
  /\ LET all_ids == Get(inbox, loc[p].agent_id) IN
     /\ loc' = [loc EXCEPT ![p] = @ @@
           [all_ids |-> all_ids,
            seen_at |-> Len(Get(appended, loc[p].agent_id))]]
     /\ IF all_ids = <<>>
        THEN Finish(p, [op |-> "poll", status |-> 200,
                        messages |-> <<>>, remaining |-> 0])
        ELSE Goto(p, "poll_ltrim")
  /\ UNCHANGED <<storeVars, envVars, histVars>>

\* an LRANGE without the early return of lines 269-274
PollLrangeNoEarlyReturn(p) ==
  /\ pc[p] = "poll_lrange"
  /\ Issue(p, "LRANGE")
  /\ loc' = [loc EXCEPT ![p] = @ @@
        [all_ids |-> Get(inbox, loc[p].agent_id),
         seen_at |-> Len(Get(appended, loc[p].agent_id))]]
  /\ Goto(p, "poll_ltrim")
  /\ UNCHANGED <<storeVars, envVars, histVars>>

\* lines 247-274: LRANGE inbox:{agent_id} 0 -1; an empty list is answered at
\* once.  seen_at (history): how many ids had been appended to the inbox
PollLrange(p) ==
  /\ pc[p] = "poll_lrange"
  /\ Issue(p, "LRANGE")
  /\ LET all_ids == Get(inbox, loc[p].agent_id) IN
     /\ loc' = [loc EXCEPT ![p] = @ @@
           [all_ids |-> all_ids,
            seen_at |-> Len(Get(appended, loc[p].agent_id))]]
     /\ IF all_ids = <<>>
        THEN Finish(p, [op |-> "poll", status |-> 200,
                        messages |-> <<>>, remaining |-> 0])
        ELSE Goto(p, "poll_ltrim")
  /\ UNCHANGED <<storeVars, envVars, histVars>>

\* LTRIM key start -1: the elements from index start (0-based) on are kept; a
\* list left empty is deleted
LTrimFrom(list, start) ==
  IF start >= Len(list) THEN <<>> ELSE SubSeq(list, start + 1, Len(list))

SetList(f, k, list) == IF list = <<>> THEN Del(f, k) ELSE Put(f, k, list)

\* a DEL of the inbox key in place of the LTRIM
PollLtrimAll(p) ==
  /\ pc[p] = "poll_ltrim"
  /\ Issue(p, "LTRIM")
  /\ inbox' = Del(inbox, loc[p].agent_id)
  /\ loc' = [loc EXCEPT ![p] = @ @@
        [trim_at |-> Len(Get(appended, loc[p].agent_id))]]
  /\ Goto(p, "poll_exists")
  /\ UNCHANGED <<nameKey, agentRec, authKey, created, message, rl, envVars, histVars>>

\* an LTRIM that leaves the snapshot in the list
PollLtrimNone(p) ==
  /\ pc[p] = "poll_ltrim"
  /\ Issue(p, "LTRIM")
  /\ loc' = [loc EXCEPT ![p] = @ @@
        [trim_at |-> Len(Get(appended, loc[p].agent_id))]]
  /\ Goto(p, "poll_exists")
  /\ UNCHANGED <<storeVars, envVars, histVars>>

\* lines 256-266: LTRIM inbox:{agent_id} count -1.  trim_at (history): how
\* many ids had been appended to the inbox
PollLtrim(p) ==
  /\ pc[p] = "poll_ltrim"
  /\ Issue(p, "LTRIM")
  /\ inbox' = SetList(inbox, loc[p].agent_id,
                      LTrimFrom(Get(inbox, loc[p].agent_id), Len(loc[p].all_ids)))
  /\ loc' = [loc EXCEPT ![p] = @ @@
        [trim_at |-> Len(Get(appended, loc[p].agent_id))]]
  /\ Goto(p, "poll_exists")
  /\ UNCHANGED <<nameKey, agentRec, authKey, created, message, rl, envVars, histVars>>

\* a filter that keeps every id of the snapshot
ValidIdsAll(all_ids, msgs) == all_ids

\* lines 290-295: the ids of the snapshot whose EXISTS answered true, in order
ValidIds(all_ids, msgs) == SelectSeq(all_ids, LAMBDA id : id \in DOMAIN msgs)

Min(a, b) == IF a <= b THEN a ELSE b

\* a split that starts the kept part one id too far
ToKeepSkipsOne(valid_ids, take_n) ==
  IF Len(valid_ids) <= take_n + 1 THEN <<>>
  ELSE SubSeq(valid_ids, take_n + 2, Len(valid_ids))

\* lines 298-303
ToReturn(valid_ids, take_n) == SubSeq(valid_ids, 1, Min(take_n, Len(valid_ids)))
ToKeep(valid_ids, take_n) ==
  IF Len(valid_ids) <= take_n THEN <<>>
  ELSE SubSeq(valid_ids, take_n + 1, Len(valid_ids))

\* lines 276-303: the pipeline of EXISTS message:{id}, the filter and the split.
\* The EXISTS are reads of keys that only ever disappear, so their answers are
\* those of one instant
PollExists(p) ==
  /\ pc[p] = "poll_exists"
  /\ Issue(p, "EXISTS")
  /\ LET valid_ids == ValidIds(loc[p].all_ids, message)
         take_n == TakeOf(loc[p].take)
         to_return == ToReturn(valid_ids, take_n)
         to_keep == ToKeep(valid_ids, take_n)
     IN /\ loc' = [loc EXCEPT ![p] = @ @@
              [valid_ids |-> valid_ids, to_return |-> to_return,
               to_keep |-> to_keep, k |-> Len(to_keep)]]
        /\ IF to_keep # <<>> THEN Goto(p, "poll_lpush") ELSE Goto(p, "poll_fetch")
  /\ UNCHANGED <<storeVars, envVars, histVars>>

\* the kept ids pushed first to last, without the .rev()
PollLpushForward(p) ==
  /\ pc[p] = "poll_lpush"
  /\ Issue(p, "LPUSH")
  /\ inbox' = Put(inbox, loc[p].agent_id,
                  <<loc[p].to_keep[Len(loc[p].to_keep) - loc[p].k + 1]>>
                    \o Get(inbox, loc[p].agent_id))
  /\ loc' = [loc EXCEPT ![p].k = @ - 1]
  /\ IF loc[p].k > 1 THEN Goto(p, "poll_lpush") ELSE Goto(p, "poll_fetch")
  /\ UNCHANGED <<nameKey, agentRec, authKey, created, message, rl, envVars, histVars>>

\* the kept ids put back at the tail of the list, first to last
PollLpushTail(p) ==
  /\ pc[p] = "poll_lpush"
  /\ Issue(p, "LPUSH")
  /\ inbox' = Put(inbox, loc[p].agent_id,
                  Get(inbox, loc[p].agent_id)
                    \o <<loc[p].to_keep[Len(loc[p].to_keep) - loc[p].k + 1]>>)
  /\ loc' = [loc EXCEPT ![p].k = @ - 1]
  /\ IF loc[p].k > 1 THEN Goto(p, "poll_lpush") ELSE Goto(p, "poll_fetch")
  /\ UNCHANGED <<nameKey, agentRec, authKey, created, message, rl, envVars, histVars>>

\* lines 305-320: LPUSH inbox:{agent_id} id, the kept ids last to first
PollLpush(p) ==
  /\ pc[p] = "poll_lpush"
  /\ Issue(p, "LPUSH")
  /\ inbox' = Put(inbox, loc[p].agent_id,
                  <<loc[p].to_keep[loc[p].k]>> \o Get(inbox, loc[p].agent_id))
  /\ loc' = [loc EXCEPT ![p].k = @ - 1]
  /\ IF loc[p].k > 1 THEN Goto(p, "poll_lpush") ELSE Goto(p, "poll_fetch")
  /\ UNCHANGED <<nameKey, agentRec, authKey, created, message, rl, envVars, histVars>>

\* lines 324-354: HGETALL message:{id} for each id to return; an empty hash is
\* skipped
RECURSIVE Fetch(_, _)
Fetch(ids, msgs) ==
  IF ids = <<>> THEN <<>>
  ELSE LET id == Head(ids) IN
       (IF id \in DOMAIN msgs
        THEN <<[message_id |-> id, from |-> msgs[id].from,
                to |-> msgs[id].to, body |-> msgs[id].body]>>
        ELSE <<>>) \o Fetch(Tail(ids), msgs)

MessageIds(messages) == [i \in 1..Len(messages) |-> messages[i].message_id]

\* a fetch that deletes the content records it returns
PollFetchDeletes(p) ==
  /\ pc[p] = "poll_fetch"
  /\ IF loc[p].to_return # <<>> THEN Issue(p, "HGETALL") ELSE UNCHANGED ops
  /\ LET messages == Fetch(loc[p].to_return, message) IN
     /\ Finish(p, [op |-> "poll", status |-> 200, messages |-> messages,
                   remaining |-> Len(loc[p].to_keep)])
     /\ delivered' = Put(delivered, loc[p].agent_id,
                         Get(delivered, loc[p].agent_id) \o MessageIds(messages))
     /\ message' = [m \in DOMAIN message \ Range(MessageIds(messages)) |-> message[m]]
  /\ UNCHANGED <<nameKey, agentRec, authKey, created, inbox, rl>>
  /\ UNCHANGED <<envVars, loc, nextAgent, nextMsg, nSends, sent, nPolls, regLog, appended, rlLog>>

\* a fetch that answers 503 when a content record is gone
PollFetchStrict(p) ==
  /\ pc[p] = "poll_fetch"
  /\ IF loc[p].to_return # <<>> THEN Issue(p, "HGETALL") ELSE UNCHANGED ops
  /\ LET messages == Fetch(loc[p].to_return, message) IN
     IF Len(messages) < Len(loc[p].to_return)
     THEN /\ Finish(p, [op |-> "poll", status |-> 503])
          /\ UNCHANGED delivered
     ELSE /\ Finish(p, [op |-> "poll", status |-> 200, messages |-> messages,
                        remaining |-> Len(loc[p].to_keep)])
          /\ delivered' = Put(delivered, loc[p].agent_id,
                              Get(delivered, loc[p].agent_id) \o MessageIds(messages))
  /\ UNCHANGED <<storeVars, envVars, loc, nextAgent, nextMsg, nSends, sent, nPolls, regLog, appended, rlLog>>

\* a response whose remaining counts the ids of the snapshot that were not
\* returned, expired ones included
PollFetchCountsSnapshot(p) ==
  /\ pc[p] = "poll_fetch"
  /\ IF loc[p].to_return # <<>> THEN Issue(p, "HGETALL") ELSE UNCHANGED ops
  /\ LET messages == Fetch(loc[p].to_return, message) IN
     /\ Finish(p, [op |-> "poll", status |-> 200, messages |-> messages,
                   remaining |-> Len(loc[p].all_ids) - Len(loc[p].to_return)])
     /\ delivered' = Put(delivered, loc[p].agent_id,
                         Get(delivered, loc[p].agent_id) \o MessageIds(messages))
  /\ UNCHANGED <<storeVars, envVars, loc, nextAgent, nextMsg, nSends, sent, nPolls, regLog, appended, rlLog>>

\* lines 322-359: the fetches (reads of keys that only ever disappear, so one
\* instant) and the 200 response
PollFetch(p) ==
  /\ pc[p] = "poll_fetch"
  /\ IF loc[p].to_return # <<>> THEN Issue(p, "HGETALL") ELSE UNCHANGED ops
  /\ LET messages == Fetch(loc[p].to_return, message) IN
     /\ Finish(p, [op |-> "poll", status |-> 200, messages |-> messages,
                   remaining |-> Len(loc[p].to_keep)])
     /\ delivered' = Put(delivered, loc[p].agent_id,
                         Get(delivered, loc[p].agent_id) \o MessageIds(messages))
  /\ UNCHANGED <<storeVars, envVars, loc, nextAgent, nextMsg, nSends, sent, nPolls, regLog, appended, rlLog>>


\* the store command a poll issues at each of its stages
PollCommand(stage) ==
  CASE stage = "poll_lrange" -> "LRANGE"
    [] stage = "poll_ltrim" -> "LTRIM"
    [] stage = "poll_exists" -> "EXISTS"
    [] stage = "poll_lpush" -> "LPUSH"
    [] stage = "poll_fetch" -> "HGETALL"

\* lines 234-335: get_connection fails (no command is sent), or the command
\* of the stage is sent once and fails without effect on the store: 503.
\* failed_at (history): the stage the poll was at
PollUnavailable(p) ==
  /\ pc[p] \in PollStages
  /\ IF pc[p] = "poll_lrange"
     THEN UNCHANGED ops \/ Issue(p, "LRANGE")
     ELSE Issue(p, PollCommand(pc[p]))
  /\ loc' = [loc EXCEPT ![p] = Put(@, "failed_at", pc[p])]
  /\ Finish(p, [op |-> "poll", status |-> 503])
  /\ UNCHANGED <<storeVars, envVars, histVars>>

(***************************************************************************)
(* The mailbox specifications                                              *)
(***************************************************************************)
\* the agents registered before the first message, in registration order
MailNames == << <<"b", "o", "t">>, <<"c", "a", "t">>, <<"a", "b", "c">> >>
MailAgents == 1..Len(MailNames)

\* the requests of the mailbox specifications are authenticated and valid
Sender1 == {Bearer(ApiKey(1))}
Poller2 == {Bearer(ApiKey(2))}
Pollers23 == {Bearer(ApiKey(2)), Bearer(ApiKey(3))}
MailBodies == { <<"h", "i">> }
MailTakes == {NoTake, 2, 10}
ConcTakes == {NoTake, 2}

\* the store after register has run for each of names, one after another
RegisteredAs(names) ==
  /\ nameKey = [n \in Range(names) |->
                  CHOOSE a \in DOMAIN names : names[a] = n]
  /\ agentRec = [a \in DOMAIN names |->
                  [name |-> names[a], description |-> <<"d">>,
                   active |-> "true", created_at |-> 0,
                   auth_hash |-> hash_token(ApiKey(a))]]
  /\ authKey = [h \in {hash_token(ApiKey(a)) : a \in DOMAIN names} |->
                  CHOOSE a \in DOMAIN names : hash_token(ApiKey(a)) = h]
  /\ created = DOMAIN names
  /\ message = EmptyMap
  /\ inbox = EmptyMap
  /\ pc = [p \in Procs |-> "idle"]
  /\ loc = [p \in Procs |-> EmptyMap]
  /\ resp = [p \in Procs |-> NoResp]
  /\ ops = [p \in Procs |-> <<>>]
  /\ nextAgent = Len(names) + 1
  /\ nextMsg = 1
  /\ sent = EmptyMap
  /\ nPolls = 0
  /\ regLog = {[agent_id |-> a, name |-> names[a], status |-> 201,
                api_key |-> ApiKey(a)] : a \in DOMAIN names}
  /\ appended = EmptyMap
  /\ delivered = EmptyMap

Registered == RegisteredAs(MailNames)

\* no send has been made yet and the admin secret is not set
InitMail ==
  /\ Registered
  /\ now = 0
  /\ adminSecret = NoSecret
  /\ rl = EmptyMap
  /\ rlLog = EmptyMap
  /\ nSends = 0

Send(p, headers, tolists, bodies, maxSends) ==
  \/ \E header \in headers, to \in tolists, body \in bodies :
       SendStart(p, header, to, body, maxSends)
  \/ SendRateLimit(p)
  \/ SendCheck(p)
  \/ SendHset(p)
  \/ SendExpire(p)
  \/ SendRpush(p)

Poll(p, headers, takes, single) ==
  \/ \E header \in headers, take \in takes : PollStart(p, header, take, single)
  \/ PollLrange(p)
  \/ PollLtrim(p)
  \/ PollExists(p)
  \/ PollLpush(p)
  \/ PollFetch(p)

\* Spec: agent 1 sends to agent 2 on one connection, one send after another;
\* agent 2 polls on another, one poll at a time
Next ==
  \/ \E p \in {"p1"} : Send(p, Sender1, {<<2>>}, MailBodies, MaxSends)
  \/ \E p \in {"p2"} : Poll(p, Poller2, MailTakes, TRUE)
  \/ \E p \in Procs : AuthGet(p)
  \/ \E p \in Procs : Return(p)
  \/ \E m \in DOMAIN message : Expire(m)

Spec == InitMail /\ [][Next]_vars

\* the client of agent 2 keeps polling and the server keeps serving it
PollerRuns ==
  \E p \in {"p2"} : Poll(p, Poller2, MailTakes, TRUE) \/ AuthGet(p) \/ Return(p)

SpecLive == Spec /\ WF_vars(PollerRuns)

\* SpecFan: agent 1 sends to agents 2 and 3, or to agent 3 alone; agents 2
\* and 3 poll in turn
NextFan ==
  \/ \E p \in {"p1"} : Send(p, Sender1, {<<2, 3>>, <<3>>}, MailBodies, MaxFanSends)
  \/ \E p \in {"p2"} : Poll(p, Pollers23, MailTakes, TRUE)
  \/ \E p \in Procs : AuthGet(p)
  \/ \E p \in Procs : Return(p)
  \/ \E m \in DOMAIN message : Expire(m)

SpecFan == InitMail /\ [][NextFan]_vars

\* SpecConc: agent 1 sends to agent 2; agent 2 polls on two connections whose
\* polls may overlap
NextConc ==
  \/ \E p \in {"p1"} : Send(p, Sender1, {<<2>>}, MailBodies, MaxConcSends)
  \/ \E p \in {"p2", "p3"} : Poll(p, Poller2, ConcTakes, FALSE)
  \/ \E p \in Procs : AuthGet(p)
  \/ \E p \in Procs : Return(p)
  \/ \E m \in DOMAIN message : Expire(m)

SpecConc == InitMail /\ [][NextConc]_vars


\* SpecPollFail: agent 1 sends to agent 2; agent 2 polls, one poll at a time,
\* and any store round-trip of a poll may fail
NextPollFail ==
  \/ \E p \in {"p1"} : Send(p, Sender1, {<<2>>}, MailBodies, MaxConcSends)
  \/ \E p \in {"p2"} : Poll(p, Poller2, ConcTakes, TRUE)
  \/ \E p \in {"p2"} : PollUnavailable(p)
  \/ \E p \in Procs : AuthGet(p)
  \/ \E p \in Procs : Return(p)
  \/ \E m \in DOMAIN message : Expire(m)

SpecPollFail == InitMail /\ [][NextPollFail]_vars


\* SpecOwn: agent 2 activates, deactivates and updates itself on two
\* connections while agent 1 sends to agents 2 and 3 and the clock advances
NextOwn ==
  \/ \E p \in {"p1"} : Send(p, Sender1, {<<2, 3>>}, MailBodies, MaxOwnSends)
  \/ \E p \in {"p2", "p3"} : SetActive(p, Poller2)
  \/ \E p \in {"p2"} : Update(p, Poller2, { <<"e">> })
  \/ \E p \in Procs : AuthGet(p)
  \/ \E p \in Procs : Return(p)
  \/ Tick

SpecOwn == InitMail /\ [][NextOwn]_vars


\* SpecInactive: agent 2 deactivates and activates itself and sends to agent
\* 3 on one connection and polls on another, on which agents are searched
\* too; agent 1 sends to agent 2
NextInactive ==
  \/ \E p \in {"p1"} : Send(p, Sender1, {<<2>>}, MailBodies, MaxInactiveSends)
  \/ \E p \in {"p2"} : SetActive(p, Poller2)
  \/ \E p \in {"p2"} : Send(p, Poller2, {<<3>>}, MailBodies, MaxInactiveSends)
  \/ \E p \in {"p3"} : Poll(p, Poller2, {NoTake}, TRUE)
  \/ \E p \in {"p3"} : Search(p, { << <<"c", "a", "t">> >> })
  \/ \E p \in Procs : AuthGet(p)
  \/ \E p \in Procs : Return(p)

SpecInactive == InitMail /\ [][NextInactive]_vars


\* SpecStoreFail: agent 1 sends to agent 2, agent 2 polls, agents are
\* searched, and the store may fail at the credential lookup, at any
\* round-trip of a poll and at any round-trip of a search
NextStoreFail ==
  \/ \E p \in {"p1"} : Send(p, Sender1, {<<2>>}, MailBodies, MaxConcSends)
  \/ \E p \in {"p2"} : Poll(p, Poller2, {NoTake}, TRUE)
  \/ \E p \in {"p2"} : PollUnavailable(p)
  \/ \E p \in {"p3"} : Search(p, { << <<"c", "a", "t">> >> })
  \/ \E p \in {"p3"} : SearchUnavailable(p)
  \/ \E p \in {"p3"} : SearchFtFails(p)
  \/ \E p \in {"p3"} : SearchZcardFails(p)
  \/ \E p \in Procs : AuthGet(p)
  \/ \E p \in Procs : AuthUnavailable(p)
  \/ \E p \in Procs : Return(p)

SpecStoreFail == InitMail /\ [][NextStoreFail]_vars


\* SpecQuery: searches whose phrases are all the strings up to MaxPhraseLen
\* over a letter, a metacharacter and a space, alone or followed by a phrase
\* that is kept, dropped or empty, and, alone, the phrases and lists on both
\* sides of the limits of the validation
QueryAlphabet == {"a", "!", " "}
ShortPhrases == UNION {[1..n -> QueryAlphabet] : n \in 0..MaxPhraseLen}
QueryPhrases ==
  ShortPhrases
    \cup { <<"a", "\t", " ", "b", "-", "c">>,
           [i \in 1..PhraseMaxLen |-> "a"],
           [i \in 1..(PhraseMaxLen + 1) |-> "a"] }
QueryInputs ==
  {<<ph>> : ph \in QueryPhrases}
    \cup {<<ph1, ph2>> : ph1 \in ShortPhrases, ph2 \in {<<"a">>, <<"!", " ">>, <<>>}}
    \cup { <<>>,
           [i \in 1..PhrasesMax |-> <<"a">>],
           [i \in 1..(PhrasesMax + 1) |-> <<"a">>] }

NextQuery ==
  \/ \E p \in {"p3"} : Search(p, QueryInputs)
  \/ \E p \in {"p3"} : Return(p)

SpecQuery == InitMail /\ [][NextQuery]_vars


\* SpecVal: agent 1 sends requests of every kind, well-formed or not, with
\* good and bad credentials, while agent 2 deactivates and activates itself;
\* the store may be unreachable when a credential is looked up
ValHeaders ==
  { NoHeader,
    [scheme |-> "Basic ", token |-> ApiKey(1)],
    Bearer([prefix |-> "xx_key_", rand |-> 1]),
    Bearer(ApiKey(9)),
    Bearer(ApiKey(1)) }

\* more recipients than allowed; the sender is the first, the rest repeat
TooMany == [i \in 1..(RecipientsMax + 1) |-> IF i = 1 THEN 1 ELSE 2]

ValToLists ==
  { <<>>, <<1>>, <<2, 2>>, <<1, 1>>, <<2, 1>>, <<2, 7>>, <<1, 7>>, <<2, 3>>, TooMany }
ValBodies == { <<"h", "i">>, <<" ">> }

NextVal ==
  \/ \E p \in {"p1"} : Send(p, ValHeaders, ValToLists, ValBodies, MaxValSends)
  \/ \E p \in {"p2"} : SetActive(p, {NoHeader, Bearer(ApiKey(2))})
  \/ \E p \in Procs : AuthGet(p)
  \/ \E p \in Procs : AuthUnavailable(p)
  \/ \E p \in Procs : Return(p)

\* agent 1 has sent RateLimit - 2 requests within the current minute, each
\* with an empty recipient list: the limiter counted them and each was
\* answered 400 without another write
InitVal ==
  /\ Registered
  /\ now = 0
  /\ adminSecret = NoSecret
  /\ rl = (<<1, Minute(0)>> :> [count |-> RateLimit - 2, expire_at |-> RateExpire])
  /\ rlLog = (1 :> [i \in 1..(RateLimit - 2) |-> [at |-> 0, limited |-> FALSE]])
  /\ nSends = RateLimit - 2

SpecVal == InitVal /\ [][NextVal]_vars


\* SpecRate: agents 1 and 2 send to agent 3 while the clock advances across
\* minute boundaries.  At the start the clock is TickStep seconds into a
\* minute and agent 1 has just sent RateLimit - 2 requests with an empty
\* recipient list (counted by the limiter, answered 400, nothing else written)
InitRate ==
  /\ Registered
  /\ now = TickStep
  /\ adminSecret = NoSecret
  /\ rl = (<<1, Minute(0)>> :>
             [count |-> RateLimit - 2, expire_at |-> TickStep + RateExpire])
  /\ rlLog = (1 :> [i \in 1..(RateLimit - 2) |-> [at |-> TickStep, limited |-> FALSE]])
  /\ nSends = RateLimit - 2

NextRate ==
  \/ \E p \in {"p1"} : Send(p, Sender1, {<<3>>}, MailBodies, MaxRateSends)
  \/ \E p \in {"p2"} : Send(p, Poller2, {<<3>>}, MailBodies, MaxRateSends)
  \/ \E p \in Procs : AuthGet(p)
  \/ \E p \in Procs : Return(p)
  \/ Tick

SpecRate == InitRate /\ [][NextRate]_vars


\* SpecAuth: one connection registers agents while another presents
\* credentials of every kind to activate / deactivate, among them keys that
\* register has issued, is about to issue, or never issues
AuthHeaders ==
  {Bearer(ApiKey(n)) : n \in 1..(MaxRegs + 1)}
    \cup { NoHeader,
           [scheme |-> "Basic ", token |-> ApiKey(1)],
           Bearer([prefix |-> "xx_key_", rand |-> 1]) }

NextAuth ==
  \/ \E p \in {"p1"} : Register(p)
  \/ \E p \in {"p3"} : SetActive(p, AuthHeaders)
  \/ \E p \in Procs : AuthGet(p)
  \/ \E p \in Procs : Return(p)

SpecAuth == InitReg /\ [][NextAuth]_vars


\* SpecSearch: a connection registers agents, another activates and
\* deactivates the first of them with its key, a third searches
SearchInputs ==
  { << <<"d">> >>,
    << <<"b", "o", "t">>, <<"!">> >>,
    << <<"!", " ">> >>,
    <<>> }

NextSearch ==
  \/ \E p \in {"p1"} : Register(p)
  \/ \E p \in {"p2"} : SetActive(p, {Bearer(ApiKey(1))})
  \/ \E p \in {"p3"} : Search(p, SearchInputs)
  \/ \E p \in Procs : AuthGet(p)
  \/ \E p \in Procs : Return(p)

SpecSearch == InitReg /\ [][NextSearch]_vars


\* SpecExpiry: agent 1 sends to agent 3 on two connections at once while the
\* clock advances, minute by minute, past the expiry of its first counters;
\* time does not stop
NextExpiry ==
  \/ \E p \in {"p1", "p2"} : Send(p, Sender1, {<<3>>}, MailBodies, MaxExpirySends)
  \/ \E p \in Procs : AuthGet(p)
  \/ \E p \in Procs : Return(p)
  \/ TickBy(ExpiryStep, MaxExpiryTime)

SpecExpiry ==
  InitMail /\ [][NextExpiry]_vars /\ WF_vars(TickBy(ExpiryStep, MaxExpiryTime))


\* SpecOrder: agent 1, two sends short of its limit for the minute, sends
\* requests that break none, one or several of the preconditions, among
\* them bodies of one character more than allowed, while agent 2
\* deactivates and activates itself
LongBody == [i \in 1..(BodyMaxLen + 1) |-> "h"]
OrderBodies == { <<"h", "i">>, <<" ">>, LongBody }

NextOrder ==
  \/ \E p \in {"p1"} : Send(p, Sender1, ValToLists, OrderBodies, MaxValSends)
  \/ \E p \in {"p2"} : SetActive(p, Poller2)
  \/ \E p \in Procs : AuthGet(p)
  \/ \E p \in Procs : Return(p)

SpecOrder == InitVal /\ [][NextOrder]_vars


\* SpecFrame: every operation that validates its input, with inputs that
\* pass and inputs that fail: a connection registers agents, a second sends
\* and updates as agent 1, a third polls as agent 2 and searches; agents 1
\* and 2 are registered at the start
FrameNames == { <<"b", "o", "t">>, <<"a", "b", "c">>, <<"a", "b">> }
FrameToLists == { <<2>>, <<1>>, <<>> }
FrameDescs == { <<"e">>, <<" ">> }
FrameTakes == {NoTake, TakeMax + 1}
FrameSearches == { << <<"d">> >>, <<>> }

NextFrame ==
  \/ \E p \in {"p1"} : RegisterOf(p, FrameNames, RawDescs)
  \/ \E p \in {"p2"} : Send(p, Sender1, FrameToLists, ValBodies, MaxFrameSends)
  \/ \E p \in {"p2"} : Update(p, Sender1, FrameDescs)
  \/ \E p \in {"p3"} : Poll(p, Poller2, FrameTakes, TRUE)
  \/ \E p \in {"p3"} : Search(p, FrameSearches)
  \/ \E p \in Procs : AuthGet(p)
  \/ \E p \in Procs : Return(p)

InitFrame ==
  /\ RegisteredAs(<< <<"b", "o", "t">>, <<"c", "a", "t">> >>)
  /\ now = 0
  /\ adminSecret = NoSecret
  /\ rl = EmptyMap
  /\ rlLog = EmptyMap
  /\ nSends = 0

SpecFrame == InitFrame /\ [][NextFrame]_vars


\* SpecQuiet: the stats are taken while no other request is in progress and
\* no message expires; between two stats, agent 1 sends, agent 2 polls and
\* the oldest message may expire.  At the start NBusy agents are registered
\* and agent 1 has sent a \div 2 messages to every other agent a; the rate
\* counters of those sends have expired, and the histories of the limiter
\* start here
BusyAgents == 1..NBusy
BusyName(a) == [i \in 1..(a + 2) |-> "a"]
BusyLen(a) == a \div 2
BusyOffset(a) == ((a - 1) * (a - 1)) \div 4
BusyIds(a) == [i \in 1..BusyLen(a) |-> BusyOffset(a) + i]
BusyMessages == 1..BusyOffset(NBusy + 1)
BusyOwner(m) ==
  CHOOSE a \in BusyAgents \ {1} : BusyOffset(a) < m /\ m <= BusyOffset(a) + BusyLen(a)

InitQuiet ==
  /\ nameKey = [n \in {BusyName(a) : a \in BusyAgents} |->
                  CHOOSE a \in BusyAgents : BusyName(a) = n]
  /\ agentRec = [a \in BusyAgents |->
                  [name |-> BusyName(a), description |-> <<"d">>,
                   active |-> "true", created_at |-> 0,
                   auth_hash |-> hash_token(ApiKey(a))]]
  /\ authKey = [h \in {hash_token(ApiKey(a)) : a \in BusyAgents} |->
                  CHOOSE a \in BusyAgents : hash_token(ApiKey(a)) = h]
  /\ created = BusyAgents
  /\ message = [m \in BusyMessages |->
                  [from |-> 1, to |-> <<BusyOwner(m)>>, body |-> <<"h", "i">>,
                   ttl |-> TRUE]]
  /\ inbox = [a \in BusyAgents \ {1} |-> BusyIds(a)]
  /\ rl = EmptyMap
  /\ now = 0
  /\ adminSecret = Secret(1)
  /\ pc = [p \in Procs |-> "idle"]
  /\ loc = [p \in Procs |-> EmptyMap]
  /\ resp = [p \in Procs |-> NoResp]
  /\ ops = [p \in Procs |-> <<>>]
  /\ nextAgent = NBusy + 1
  /\ nextMsg = BusyOffset(NBusy + 1) + 1
  /\ nSends = 0
  /\ sent = [m \in BusyMessages |->
               [from |-> 1, to |-> <<BusyOwner(m)>>, body |-> <<"h", "i">>]]
  /\ nPolls = 0
  /\ regLog = {[agent_id |-> a, name |-> BusyName(a), status |-> 201,
                api_key |-> ApiKey(a)] : a \in BusyAgents}
  /\ rlLog = EmptyMap
  /\ appended = [a \in BusyAgents \ {1} |-> BusyIds(a)]
  /\ delivered = EmptyMap

StatsRunning == \E q \in Procs : pc[q] \in StatsStages
Quiet(p) == \A q \in Procs \ {p} : pc[q] = "idle"

NextQuiet ==
  \/ /\ ~StatsRunning
     /\ \/ \E p \in {"p1"} : Send(p, Sender1, {<<2>>, <<3, 4>>}, MailBodies, MaxQuietSends)
        \/ \E p \in {"p2"} : Poll(p, Poller2, {NoTake}, TRUE)
        \/ \E p \in Procs : AuthGet(p)
        \/ \E p \in Procs : Return(p)
        \/ \E m \in DOMAIN message \cap {1} : Expire(m)
  \/ \E p \in {"p3"} : Quiet(p) /\ Stats(p, {Bearer(Secret(1).value)})

SpecQuiet == InitQuiet /\ [][NextQuiet]_vars


\* SpecAdmin: agent 1 sends to agents 2 and 3 while a client asks for the
\* stats with headers of every kind; the admin secret is set or not
StatsHeaders ==
  { NoHeader,
    [scheme |-> "Basic ", token |-> Secret(1).value],
    Bearer(Secret(1).value),
    Bearer(Secret(2).value),
    Bearer(ApiKey(1)) }

InitAdmin ==
  /\ Registered
  /\ now = 0
  /\ adminSecret \in AdminSecrets
  /\ rl = EmptyMap
  /\ rlLog = EmptyMap
  /\ nSends = 0

NextAdmin ==
  \/ \E p \in {"p1"} : Send(p, Sender1, {<<2>>, <<2, 3>>}, MailBodies, MaxAdminSends)
  \/ \E p \in {"p3"} : Stats(p, StatsHeaders)
  \/ \E p \in Procs : AuthGet(p)
  \/ \E p \in Procs : Return(p)

SpecAdmin == InitAdmin /\ [][NextAdmin]_vars


(***************************************************************************)
(* Vocabulary of the mailbox properties                                    *)
(***************************************************************************)
Count(seq, x) == Cardinality({i \in 1..Len(seq) : seq[i] = x})
NoDuplicates(seq) == \A i, j \in 1..Len(seq) : seq[i] = seq[j] => i = j

\* a poll of agent a has trimmed the inbox and not yet answered: the ids of
\* its snapshot are in its hands
Holding(a) ==
  \E q \in Procs :
    /\ pc[q] \in {"poll_exists", "poll_lpush", "poll_fetch"}
    /\ loc[q].agent_id = a

\* the polls that have been answered 200 and whose response is not yet read
AnsweredPolls ==
  {q \in Procs : pc[q] = "done" /\ resp[q].op = "poll" /\ resp[q].status = 200}

\* the sends that have been answered 201 and whose response is not yet read
AnsweredSends ==
  {q \in Procs : pc[q] = "done" /\ resp[q].op = "send" /\ resp[q].status = 201}

(***************************************************************************)
(* C3: a send answered 201 has appended its message id exactly once to the *)
(* inbox of each recipient and to no other inbox (not the sender's); a     *)
(* recipient is delivered the id at most once, with the from, to and body  *)
(* of the send; once none of its polls holds a snapshot, each id appended  *)
(* for it is delivered, queued or expired; and a step of a poll of one     *)
(* agent changes no other agent's inbox, deliveries or message records.    *)
(***************************************************************************)
C3_FanOutState ==
  /\ \A q \in AnsweredSends : \A a \in MailAgents :
       Count(Get(appended, a), resp[q].message_id) =
         (IF a \in Range(resp[q].to) THEN 1 ELSE 0)
  /\ \A a \in MailAgents :
       /\ NoDuplicates(Get(appended, a))
       /\ NoDuplicates(Get(delivered, a))
       /\ \A m \in Range(Get(appended, a)) :
            a \in Range(sent[m].to) /\ a # sent[m].from
       /\ ~Holding(a) =>
            \A m \in Range(Get(appended, a)) :
              \/ Count(Get(delivered, a) \o Get(inbox, a), m) = 1
              \/ /\ m \notin DOMAIN message
                 /\ m \notin Range(Get(delivered, a))
  /\ \A q \in AnsweredPolls : \A i \in 1..Len(resp[q].messages) :
       LET msg == resp[q].messages[i] IN
         /\ msg.message_id \in DOMAIN sent
         /\ msg.from = sent[msg.message_id].from
         /\ msg.to = sent[msg.message_id].to
         /\ msg.body = sent[msg.message_id].body
         /\ loc[q].agent_id \in Range(msg.to)

C3_PollFrame ==
  \A q \in Procs :
    (pc[q] \in PollStages /\ pc'[q] # pc[q])
    => /\ message' = message
       /\ \A a \in MailAgents \ {loc[q].agent_id} :
            /\ Get(inbox', a) = Get(inbox, a)
            /\ Get(delivered', a) = Get(delivered, a)

C3_FanOut == []C3_FanOutState /\ [][C3_PollFrame]_vars

\* one message sent to agents 2 and 3 has been delivered to both, and the
\* second of the two polls has just been answered with it
C3_Witness ==
  \E m \in DOMAIN sent :
    /\ sent[m].to = <<2, 3>>
    /\ m \in Range(Get(delivered, 2))
    /\ m \in Range(Get(delivered, 3))
    /\ \E q \in AnsweredPolls :
         \E i \in 1..Len(resp[q].messages) : resp[q].messages[i].message_id = m


(***************************************************************************)
(* C4: with sends made one after another and one poll at a time, the ids   *)
(* reach the inbox in the order of the sends, and the batches returned by  *)
(* the polls, concatenated, are a prefix of the appended ids that were     *)
(* delivered or still have their content: messages come out in the order   *)
(* they were sent.                                                         *)
(***************************************************************************)
IsPrefix(s, t) == Len(s) <= Len(t) /\ SubSeq(t, 1, Len(s)) = s
Increasing(seq) == \A i, j \in 1..Len(seq) : i < j => seq[i] < seq[j]

\* the ids appended for a that were delivered or whose content still exists
Surviving(a) ==
  SelectSeq(Get(appended, a),
            LAMBDA m : m \in DOMAIN message \/ m \in Range(Get(delivered, a)))

C4_Fifo ==
  \A a \in MailAgents :
    /\ Increasing(Get(appended, a))
    /\ Increasing(Get(delivered, a))
    /\ IsPrefix(Get(delivered, a), Surviving(a))

\* three messages came out over two polls: take=1 returned the first and
\* requeued two, the next poll returned those two in order
C4_Witness ==
  /\ Get(delivered, 2) = <<1, 2, 3>>
  /\ \E q \in AnsweredPolls :
       /\ MessageIds(resp[q].messages) = <<2, 3>>
       /\ loc[q].all_ids = <<2, 3>>

(***************************************************************************)
(* C5: with no expiry and one poller, a poll of an inbox of N ids with     *)
(* take=k returns min(k, N) messages and remaining = N - min(k, N); the    *)
(* ids returned so far followed by the ids still queued are exactly the    *)
(* ids appended, so the polls return N messages in total; and while the    *)
(* agent keeps polling, again and again a poll answers remaining=0 and     *)
(* leaves the inbox empty.                                                 *)
(***************************************************************************)
C5_Conserved ==
  /\ \A q \in AnsweredPolls :
       (\A m \in Range(loc[q].all_ids) : m \in DOMAIN message)
       => /\ Len(resp[q].messages) = Min(TakeOf(loc[q].take), Len(loc[q].all_ids))
          /\ resp[q].remaining = Len(loc[q].all_ids) - Len(resp[q].messages)
  /\ \A a \in MailAgents :
       (~Holding(a) /\ \A m \in Range(Get(appended, a)) : m \in DOMAIN message)
       => Get(delivered, a) \o Get(inbox, a) = Get(appended, a)

C5_Drained ==
  \E q \in AnsweredPolls :
    resp[q].remaining = 0 /\ Get(inbox, loc[q].agent_id) = <<>>

C5_Conservation == []C5_Conserved /\ []<>C5_Drained

\* N=3 ids, take=2 < N: two messages and remaining=1; nothing has expired
C5_Witness ==
  \E q \in AnsweredPolls :
    /\ Len(loc[q].all_ids) = 3
    /\ TakeOf(loc[q].take) = 2
    /\ Len(resp[q].messages) = 2
    /\ resp[q].remaining = 1
    /\ DOMAIN sent \subseteq DOMAIN message

(***************************************************************************)
(* C6: with one poll of an agent at a time (sends running beside it), no   *)
(* id is returned twice to the agent, the inbox never holds an id twice,   *)
(* and no id already returned is in the inbox.                             *)
(***************************************************************************)
C6_NoDuplication ==
  \A a \in MailAgents :
    /\ NoDuplicates(Get(delivered, a))
    /\ NoDuplicates(Get(inbox, a))
    /\ Range(Get(delivered, a)) \cap Range(Get(inbox, a)) = {}

\* the scenario of the spec: the message was returned by an earlier poll, and
\* the poll just answered found the inbox empty
C6_Witness ==
  \E q \in AnsweredPolls :
    /\ resp[q].messages = <<>>
    /\ loc[q].all_ids = <<>>
    /\ Get(delivered, loc[q].agent_id) # <<>>

(***************************************************************************)
(* C7: an id appended after a poll read its snapshot is in the inbox when  *)
(* the poll is answered and is not in the poll's batch; and with one       *)
(* poller, every id appended whose content exists is queued, delivered, or *)
(* in the snapshot of the poll in progress.                                *)
(***************************************************************************)
\* the ids appended to the inbox of the poll of q since its LRANGE
Late(q) ==
  SubSeq(Get(appended, loc[q].agent_id), loc[q].seen_at + 1,
         Len(Get(appended, loc[q].agent_id)))

InHand(a) ==
  UNION {Range(loc[q].all_ids) :
           q \in {r \in Procs :
                    /\ pc[r] \in {"poll_exists", "poll_lpush", "poll_fetch"}
                    /\ loc[r].agent_id = a}}

C7_NoLoss ==
  /\ \A q \in AnsweredPolls : \A m \in Range(Late(q)) :
       /\ m \in Range(Get(inbox, loc[q].agent_id))
       /\ m \notin Range(MessageIds(resp[q].messages))
  /\ \A a \in MailAgents : \A m \in Range(Get(appended, a)) :
       m \in DOMAIN message
       => m \in Range(Get(delivered, a)) \cup Range(Get(inbox, a)) \cup InHand(a)

\* a send appended between the LRANGE and the LTRIM of a poll that returned a
\* message
C7_Witness ==
  \E q \in AnsweredPolls :
    /\ loc[q].all_ids # <<>>
    /\ loc[q].trim_at > loc[q].seen_at
    /\ resp[q].messages # <<>>
    /\ Late(q) # <<>>

(***************************************************************************)
(* C8: once no poll is in progress, every id appended to the inbox whose   *)
(* content exists has been returned by a poll or is in the inbox, also     *)
(* when polls of the agent overlapped.                                     *)
(***************************************************************************)
C8_AtLeastOnce ==
  (\A q \in Procs : pc[q] \notin PollStages)
  => \A a \in MailAgents : \A m \in Range(Get(appended, a)) :
       m \in DOMAIN message
       => m \in Range(Get(delivered, a)) \cup Range(Get(inbox, a))

(***************************************************************************)
(* C9: nothing excludes one poll from another: while a poll is between its *)
(* LRANGE and its LTRIM, the LRANGE and the LTRIM of every other poll of   *)
(* the agent can run.                                                      *)
(***************************************************************************)
C9_NoMutualExclusion ==
  \A q, r \in Procs :
    (/\ q # r
     /\ pc[q] = "poll_ltrim"
     /\ pc[r] \in {"poll_lrange", "poll_ltrim"})
    => /\ pc[r] = "poll_lrange" => ENABLED PollLrange(r)
       /\ pc[r] = "poll_ltrim" => ENABLED PollLtrim(r)

\* two polls of one agent, both answered, return the same message id
C9_Witness ==
  \E q, r \in AnsweredPolls :
    /\ q # r
    /\ loc[q].agent_id = loc[r].agent_id
    /\ Range(MessageIds(resp[q].messages))
         \cap Range(MessageIds(resp[r].messages)) # {}

(***************************************************************************)
(* C10: a poll whose LRANGE finds no ids answers 200 with messages=[] and  *)
(* remaining=0, whatever the take, having issued the GET of the            *)
(* authentication and the LRANGE and nothing else; the store is unchanged. *)
(***************************************************************************)
C10_EmptyPoll ==
  [][\A q \in Procs :
       (/\ pc[q] = "poll_lrange"
        /\ pc'[q] # "poll_lrange"
        /\ Get(inbox, loc[q].agent_id) = <<>>)
       => /\ pc'[q] = "done"
          /\ resp'[q] = [op |-> "poll", status |-> 200,
                         messages |-> <<>>, remaining |-> 0]
          /\ ops'[q] = <<"GET", "LRANGE">>
          /\ storeVars' = storeVars]_vars

\* an empty inbox polled with take=10, after an earlier poll had emptied it
C10_Witness ==
  \E q \in AnsweredPolls :
    /\ loc[q].all_ids = <<>>
    /\ loc[q].take = 10
    /\ resp[q].messages = <<>>
    /\ resp[q].remaining = 0
    /\ ops[q] = <<"GET", "LRANGE">>
    /\ Get(delivered, loc[q].agent_id) # <<>>


(***************************************************************************)
(* Vocabulary of the send validation properties                            *)
(***************************************************************************)
\* the sends whose credential resolved to an agent and that have been answered
FinishedSends ==
  {q \in Procs : pc[q] = "done" /\ resp[q].op = "send" /\ "agent_id" \in DOMAIN loc[q]}

SelfSend(q) == loc[q].agent_id \in Range(loc[q].to)

SendWriteStages == {"send_check", "send_hset", "send_expire", "send_rpush"}

\* the store commands that create a content record or append to an inbox
DeliveryCommands == {"HSET", "EXPIRE", "RPUSH"}

(***************************************************************************)
(* C11 as stated: every authenticated send that lists its sender is        *)
(* answered 403, whatever else is true of the request.                     *)
(***************************************************************************)
C11_AlwaysForbidden ==
  \A q \in FinishedSends : SelfSend(q) => resp[q].status = 403

(***************************************************************************)
(* C11: an authenticated send that lists its sender delivers nothing and   *)
(* is rejected by the first check that fails, in the order rate limit      *)
(* (429), recipient count (400), duplicate recipients (400), self-send     *)
(* (403): it is answered 403 exactly when the limiter passed it and its    *)
(* list has at most 10 recipients, all distinct, whatever its body and     *)
(* whether the other recipients exist.                                     *)
(***************************************************************************)
C11_SelfSend ==
  /\ \A q \in FinishedSends :
       SelfSend(q)
       => /\ resp[q].status =
               IF loc[q].count > RateLimit THEN 429
               ELSE IF Len(loc[q].to) > RecipientsMax THEN 400
               ELSE IF HasDuplicates(loc[q].to) THEN 400
               ELSE 403
          /\ Range(ops[q]) \cap DeliveryCommands = {}
  /\ \A q \in Procs : pc[q] \in SendWriteStages => ~SelfSend(q)
  /\ \A m \in DOMAIN sent : sent[m].from \notin Range(sent[m].to)
  /\ \A m \in DOMAIN message : message[m].from \notin Range(message[m].to)
  /\ \A a \in DOMAIN inbox : \A m \in Range(inbox[a]) : a # sent[m].from

\* a self-send with a blank body and a recipient that does not exist: 403
C11_Witness ==
  \E q \in FinishedSends :
    /\ loc[q].to = <<1, 7>>
    /\ trim(loc[q].body) = <<>>
    /\ resp[q].status = 403
    /\ loc[q].count <= RateLimit


InBucket(s, i) ==
  Cardinality({j \in 1..i : Minute(rlLog[s][j].at) = Minute(rlLog[s][i].at)})

\* of the first i sends of sender s that reached the limiter, those in the
\* 60 seconds that end with the i-th
InWindow(s, i) ==
  Cardinality({j \in 1..i : rlLog[s][j].at > rlLog[s][i].at - BucketSeconds})

(***************************************************************************)
(* C13 as stated: in every rolling 60-second window of a sender, also one  *)
(* that straddles a minute boundary, the first 12 sends are not limited    *)
(* and the 13th is answered 429.                                           *)
(***************************************************************************)
C13_RollingWindow ==
  \A s \in DOMAIN rlLog : \A i \in 1..Len(rlLog[s]) :
    rlLog[s][i].limited = (InWindow(s, i) > RateLimit)

(***************************************************************************)
(* C13: for every sender and every wall-clock minute, the first 12 sends   *)
(* that reach the limiter in that minute are not limited and every later   *)
(* one in that minute is answered 429; the count starts again at the next  *)
(* minute, and one sender's sends never count against another sender.      *)
(***************************************************************************)
C13_FixedWindow ==
  /\ \A s \in DOMAIN rlLog : \A i \in 1..Len(rlLog[s]) :
       rlLog[s][i].limited = (InBucket(s, i) > RateLimit)
  /\ \A q \in FinishedSends :
       /\ (resp[q].status = 429) = (loc[q].count > RateLimit)
       /\ loc[q].count <= Len(rlLog[loc[q].agent_id])

\* agent 1: the 13th send of the minute was limited, and a send less than 60
\* seconds later, in the next minute, was not; agent 2 was never limited
C13_Witness ==
  /\ 1 \in DOMAIN rlLog
  /\ 2 \in DOMAIN rlLog
  /\ \E i, k \in 1..Len(rlLog[1]) :
       /\ i = RateLimit + 1
       /\ rlLog[1][i].limited
       /\ k > i
       /\ ~rlLog[1][k].limited
       /\ rlLog[1][k].at - rlLog[1][i].at < BucketSeconds
  /\ \A j \in 1..Len(rlLog[2]) : ~rlLog[2][j].limited


(***************************************************************************)
(* C14: a send whose check finds a recipient without a record, or with     *)
(* active other than true, is answered 404 naming that recipient, and the  *)
(* check changes nothing in the store; a send answered 404 has created no  *)
(* content record and appended to no inbox, also not to the inboxes of the *)
(* valid recipients listed before the offending one; and every recipient   *)
(* of a message that was created has an agent record.                      *)
(***************************************************************************)
Active(a) == a \in DOMAIN agentRec /\ agentRec[a].active = "true"

C14_Rejected ==
  /\ \A q \in FinishedSends :
       resp[q].status = 404
       => /\ Range(ops[q]) \cap DeliveryCommands = {}
          /\ "message_id" \notin DOMAIN loc[q]
          /\ resp[q].recipient = loc[q].to[loc[q].i]
  /\ \A m \in DOMAIN sent : Range(sent[m].to) \subseteq DOMAIN agentRec

C14_CheckStep ==
  \A q \in Procs :
    (/\ pc[q] = "send_check"
     /\ ops'[q] # ops[q]
     /\ ~Active(loc[q].to[loc[q].i]))
    => /\ pc'[q] = "done"
       /\ resp'[q].status = 404
       /\ resp'[q].recipient = loc[q].to[loc[q].i]
       /\ storeVars' = storeVars
       /\ UNCHANGED <<nextMsg, sent, appended>>

C14_AllOrNothing == []C14_Rejected /\ [][C14_CheckStep]_vars

\* to = <<2, 7>>: agent 2 was checked and is active, agent 7 does not exist;
\* nothing was written for agent 2
C14_Witness ==
  \E q \in FinishedSends :
    /\ loc[q].to = <<2, 7>>
    /\ resp[q].status = 404
    /\ resp[q].recipient = 7
    /\ Active(2)
    /\ Get(inbox, 2) = <<>>
    /\ message = EmptyMap


(***************************************************************************)
(* C16: a protected request (send, activate, deactivate) whose header is   *)
(* missing, is not of the Bearer scheme or carries a token without the     *)
(* dd_key_ prefix is answered 401 without reaching the store; one whose    *)
(* token digest has no auth key is answered 401 after the GET; a failure   *)
(* of the store at the lookup is answered 503 and never 401; and a request *)
(* that fails to authenticate changes nothing in the store.                *)
(***************************************************************************)
\* the answered requests whose credential did not resolve to an agent
AuthFailed ==
  {q \in Procs : /\ pc[q] = "done"
                 /\ resp[q].op \in {"send", "set_active", "poll"}
                 /\ "agent_id" \notin DOMAIN loc[q]}

C16_Classes ==
  \A q \in AuthFailed :
    IF HeaderRejected(loc[q].header)
    THEN resp[q].status = 401 /\ ops[q] = <<>>
    ELSE /\ resp[q].status \in {401, 503}
         /\ resp[q].status = 401
            => /\ ops[q] = <<"GET">>
               /\ hash_token(loc[q].token) \notin DOMAIN authKey
         /\ resp[q].status = 503 => ops[q] \in {<<>>, <<"GET">>}

C16_LookupStep ==
  \A q \in Procs :
    (pc[q] \in {"idle", "auth"} /\ pc'[q] # pc[q])
    => /\ storeVars' = storeVars
       /\ (pc[q] = "auth" /\ pc'[q] # "done")
          => hash_token(loc[q].token) \in DOMAIN authKey
       /\ (pc[q] = "auth" /\ pc'[q] = "done" /\ resp'[q].status = 401)
          => hash_token(loc[q].token) \notin DOMAIN authKey

C16_AuthFailures == []C16_Classes /\ [][C16_LookupStep]_vars

\* the key of agent 1, presented while the store was unreachable: 503
C16_Witness ==
  \E q \in AuthFailed :
    /\ loc[q].header = Bearer(ApiKey(1))
    /\ hash_token(ApiKey(1)) \in DOMAIN authKey
    /\ resp[q].status = 503


(***************************************************************************)
(* C15: the auth index holds exactly one entry per registration answered   *)
(* 201 (and per registration that has written its entry and is about to    *)
(* answer), from the digest of the key in that registration's response to  *)
(* its agent_id; distinct registrations have distinct keys and ids; a      *)
(* request is authenticated only with "Bearer " and such a key, as the     *)
(* agent of that registration; and when no registration is in progress,    *)
(* the lookup succeeds exactly for the keys returned by registrations.     *)
(***************************************************************************)
Issued == {r \in regLog : r.status = 201}

\* the registrations that have written their auth entry and not yet answered
Issuing ==
  {[agent_id |-> loc[p].agent_id, api_key |-> loc[p].api_key] :
     p \in {q \in Procs : pc[q] = "reg_zadd"}}

KeyOwners == {[agent_id |-> r.agent_id, api_key |-> r.api_key] : r \in Issued} \cup Issuing

C15_Resolves ==
  /\ \A h \in DOMAIN authKey :
       \E r \in KeyOwners : h = hash_token(r.api_key) /\ authKey[h] = r.agent_id
  /\ \A r \in KeyOwners :
       /\ hash_token(r.api_key) \in DOMAIN authKey
       /\ authKey[hash_token(r.api_key)] = r.agent_id
  /\ \A r1, r2 \in KeyOwners :
       (r1.api_key = r2.api_key \/ r1.agent_id = r2.agent_id) => r1 = r2
  /\ \A q \in Procs :
       (pc[q] # "idle" /\ loc[q].op = "set_active" /\ "agent_id" \in DOMAIN loc[q])
       => /\ loc[q].header.scheme = "Bearer "
          /\ \E r \in KeyOwners :
               r.api_key = loc[q].header.token /\ r.agent_id = loc[q].agent_id

C15_VerifyStep ==
  \A q \in Procs :
    (pc[q] = "auth" /\ pc'[q] # "auth" /\ Issuing = {})
    => ((pc'[q] # "done") = (\E r \in Issued : r.api_key = loc[q].token))

C15_KeyResolves == []C15_Resolves /\ [][C15_VerifyStep]_vars

\* two agents are registered; the key of the second one registered was
\* presented and resolved to that agent, not to the first
C15_Witness ==
  \E q \in Procs : \E r1, r2 \in Issued :
    /\ r1 # r2
    /\ pc[q] = "done"
    /\ resp[q].op = "set_active"
    /\ resp[q].status = 204
    /\ loc[q].header = Bearer(r2.api_key)
    /\ loc[q].agent_id = r2.agent_id
    /\ loc[q].agent_id # r1.agent_id


(***************************************************************************)
(* C17: the existence check keeps exactly the snapshot ids whose content   *)
(* record exists, in snapshot order, and splits them into the returned and *)
(* the kept ids; an id of the snapshot without content (a hole) is not in  *)
(* the returned batch, is not counted in remaining and is not in the inbox *)
(* once the poll has trimmed; an id enters an inbox only by a send's RPUSH *)
(* or as a kept id of a poll, and only ids with content are returned, so   *)
(* no later poll returns a hole.                                           *)
(***************************************************************************)
\* the polls that have made their existence check
Checked == {q \in Procs : pc[q] # "idle" /\ "valid_ids" \in DOMAIN loc[q]}

Holes(q) == Range(loc[q].all_ids) \ Range(loc[q].valid_ids)

C17_Holes ==
  \A q \in Checked :
    /\ loc[q].valid_ids =
         SelectSeq(loc[q].all_ids, LAMBDA m : m \in Range(loc[q].valid_ids))
    /\ loc[q].to_return \o loc[q].to_keep = loc[q].valid_ids
    /\ Holes(q) \cap Range(Get(inbox, loc[q].agent_id)) = {}
    /\ Holes(q) \cap DOMAIN message = {}
    /\ q \in AnsweredPolls
       => /\ Holes(q) \cap Range(MessageIds(resp[q].messages)) = {}
          /\ resp[q].remaining = Len(loc[q].to_keep)
          /\ resp[q].remaining + Len(loc[q].to_return) + Cardinality(Holes(q))
               = Len(loc[q].all_ids)

C17_Steps ==
  /\ \A q \in Procs :
       (pc[q] = "poll_exists" /\ pc'[q] # "poll_exists")
       => loc'[q].valid_ids =
            SelectSeq(loc[q].all_ids, LAMBDA m : m \in DOMAIN message)
  /\ \A a \in MailAgents :
       /\ \A m \in Range(Get(inbox', a)) \ Range(Get(inbox, a)) :
            \/ m \notin Range(Get(appended, a))
            \/ \E q \in Checked : loc[q].agent_id = a /\ m \in Range(loc[q].to_keep)
       /\ \A m \in Range(Get(delivered', a)) \ Range(Get(delivered, a)) :
            m \in DOMAIN message

C17_ExpiredIsHole == []C17_Holes /\ [][C17_Steps]_vars

\* the snapshot <<1, 2, 3>> with the content of 2 expired, polled with the
\* default take: 1 is returned, 3 is kept, 2 is gone
C17_Witness ==
  \E q \in AnsweredPolls :
    /\ loc[q].all_ids = <<1, 2, 3>>
    /\ loc[q].valid_ids = <<1, 3>>
    /\ MessageIds(resp[q].messages) = <<1>>
    /\ resp[q].remaining = 1
    /\ 3 \in Range(Get(inbox, loc[q].agent_id))
    /\ 2 \notin Range(Get(inbox, loc[q].agent_id))


(***************************************************************************)
(* C18: the results of a search are exactly the agents that, when the      *)
(* FT.SEARCH runs, have active = true and match one of the sanitized       *)
(* phrases in name or description: an agent with active = false is never   *)
(* a result, and it is a result again once it is activated; the search     *)
(* writes nothing.                                                         *)
(***************************************************************************)
MatchesOne(a, phrases) ==
  \E i \in 1..Len(phrases) :
    /\ sanitize_phrase(phrases[i]) # <<>>
    /\ \/ PhraseIn(sanitize_phrase(phrases[i]), agentRec[a].name)
       \/ PhraseIn(sanitize_phrase(phrases[i]), agentRec[a].description)

ResultIds(results) == {r.agent_id : r \in results}

C18_SearchStep ==
  \A q \in Procs :
    (pc[q] = "search_ft" /\ pc'[q] # "search_ft")
    => /\ \A r \in loc'[q].results :
            /\ Active(r.agent_id)
            /\ r.name = agentRec[r.agent_id].name
       /\ ResultIds(loc'[q].results) =
            {a \in DOMAIN agentRec : Active(a) /\ MatchesOne(a, loc[q].phrases)}
       /\ storeVars' = storeVars

C18_ActiveOnly == [][C18_SearchStep]_vars

\* agent 1 matches the phrase and has been deactivated: the search answered
\* with the other matching agents and without agent 1
C18_Witness ==
  \E q \in Procs :
    /\ pc[q] = "done"
    /\ resp[q].op = "search"
    /\ resp[q].status = 200
    /\ loc[q].phrases = << <<"d">> >>
    /\ 1 \in DOMAIN agentRec
    /\ "updated_at" \in DOMAIN agentRec[1]
    /\ ~Active(1)
    /\ MatchesOne(1, loc[q].phrases)
    /\ 1 \notin ResultIds(resp[q].results)
    /\ ResultIds(resp[q].results) # {}


(***************************************************************************)
(* C19: admin stats answers 503 when DEADDROP_ADMIN_SECRET is not set; 401 *)
(* when the header is missing, is not of the Bearer scheme, or its value   *)
(* differs from the secret; it reads the store only when the value equals  *)
(* the secret; an agent's API key is not accepted.                         *)
(***************************************************************************)
C19_AdminAuth ==
  \A q \in Procs :
    (pc[q] # "idle" /\ loc[q].op = "stats")
    => /\ pc[q] = "done"
          => /\ resp[q].status =
                  IF ~adminSecret.set THEN 503
                  ELSE IF loc[q].header = NoHeader THEN 401
                  ELSE IF loc[q].header.scheme # "Bearer " THEN 401
                  ELSE IF loc[q].header.token # adminSecret.value THEN 401
                  ELSE 200
             /\ resp[q].status # 200 => ops[q] = <<>>
       /\ (pc[q] \in StatsStages \/ resp[q].status = 200)
          => /\ adminSecret.set
             /\ loc[q].header = Bearer(adminSecret.value)
             /\ hash_token(loc[q].header.token) \notin DOMAIN authKey

\* the secret is set, and the key of agent 1, which authenticates agent 1,
\* was presented to the stats: 401
C19_Witness ==
  \E q \in Procs :
    /\ pc[q] = "done"
    /\ resp[q].op = "stats"
    /\ resp[q].status = 401
    /\ adminSecret.set
    /\ loc[q].header = Bearer(ApiKey(1))
    /\ hash_token(ApiKey(1)) \in DOMAIN authKey


(***************************************************************************)
(* C20: register answers 400, without reserving the name and without any   *)
(* store command, every request whose name, once trimmed, has a length     *)
(* outside 3..128 or a character outside [A-Za-z0-9_-], or whose           *)
(* description, once trimmed, has a length outside 1..1024.  The name is   *)
(* trimmed first: a submitted name with whitespace around it is judged,    *)
(* and registered, without that whitespace.                                *)
(***************************************************************************)
NameAllowed(s) ==
  /\ Len(s) \in 3..128
  /\ \A i \in 1..Len(s) : s[i] \in AsciiAlnum \cup {"-", "_"}

DescriptionAllowed(s) == Len(trim(s)) \in 1..1024

Registering(q) == pc[q] # "idle" /\ loc[q].op = "register"

\* as stated: the name is judged as submitted
C20_SubmittedName ==
  \A q \in Procs :
    (/\ Registering(q)
     /\ \/ ~NameAllowed(loc[q].payload.name)
        \/ ~DescriptionAllowed(loc[q].payload.description))
    => /\ pc[q] = "done"
       /\ resp[q].status = 400

C20_Rejected ==
  \A q \in Procs :
    (/\ Registering(q)
     /\ \/ ~NameAllowed(trim(loc[q].payload.name))
        \/ ~DescriptionAllowed(loc[q].payload.description))
    => /\ pc[q] = "done"
       /\ resp[q].status = 400
       /\ ops[q] = <<>>

\* the step that answers a register with 400 changes no key and takes no id
C20_RejectStep ==
  \A q \in Procs :
    (pc[q] = "idle" /\ pc'[q] = "done" /\ resp'[q].op = "register"
     /\ resp'[q].status = 400)
    => UNCHANGED <<storeVars, nextAgent, regLog>>

C20_Validation == []C20_Rejected /\ [][C20_RejectStep]_vars

\* a name with a character outside the alphabet was answered 400 while a
\* name is reserved and the store holds an agent
C20_Witness ==
  \E q \in Procs :
    /\ pc[q] = "done"
    /\ resp[q].op = "register"
    /\ resp[q].status = 400
    /\ loc[q].payload.name = <<"b", "!", "t">>
    /\ loc[q].payload.description = <<"d">>
    /\ DOMAIN nameKey # {}


(***************************************************************************)
(* C21: a request of register, poll, update or search that is rejected     *)
(* with 400 has issued no command other than the credential lookup and     *)
(* leaves every key as it was.  A send rejected with 400 or 403 has        *)
(* written exactly once: the rate limiter's INCR+EXPIRE of the sender's    *)
(* counter for the minute ran before the payload was validated; no other   *)
(* key is changed.                                                         *)
(***************************************************************************)
ValidationError(r) ==
  \/ r.status = 400
  \/ r.op = "send" /\ r.status = 403

ReadCommands == {"GET"}

C21_Commands ==
  \A q \in Procs :
    (pc[q] = "done" /\ ValidationError(resp[q]))
    => IF resp[q].op = "send"
       THEN ops[q] = <<"GET", "INCR+EXPIRE">>
       ELSE Range(ops[q]) \subseteq ReadCommands

\* the step that reports the validation error
C21_RejectStep ==
  \A q \in Procs :
    (pc[q] # "done" /\ pc'[q] = "done" /\ ValidationError(resp'[q]))
    => IF resp'[q].op = "send"
       THEN /\ UNCHANGED <<nameKey, agentRec, authKey, created, message, inbox>>
            /\ LET rl_key == <<loc[q].agent_id, Minute(now)>> IN
               /\ DOMAIN rl' = DOMAIN rl \cup {rl_key}
               /\ \A k \in DOMAIN rl : k # rl_key => rl'[k] = rl[k]
               /\ rl'[rl_key].count =
                    (IF rl_key \in DOMAIN rl THEN rl[rl_key].count ELSE 0) + 1
       ELSE UNCHANGED storeVars

Keys == {ApiKey(n) : n \in 1..(MaxRegs + 1)}

AgentFields ==
  {"name", "description", "active", "created_at", "auth_hash", "updated_at"}

C22_NoPlaintext ==
  /\ \A a \in DOMAIN agentRec :
       /\ DOMAIN agentRec[a] \subseteq AgentFields
       /\ "auth_hash" \in DOMAIN agentRec[a]
          => /\ agentRec[a].auth_hash \notin Keys
             /\ agentRec[a].auth_hash = hash_token(ApiKey(a))
  /\ \A h \in DOMAIN authKey :
       /\ h \notin Keys
       /\ h = hash_token(ApiKey(authKey[h]))
  /\ \A q \in Procs :
       (pc[q] = "done" /\ "api_key" \in DOMAIN resp[q])
       => /\ resp[q].op = "register"
          /\ resp[q].status = 201
          /\ resp[q].api_key = ApiKey(resp[q].agent_id)
          /\ resp[q].api_key = loc[q].api_key

\* a registration has answered 201 with the key; the record and the auth
\* index of its agent hold the hash
C22_Witness ==
  \E q \in Procs :
    /\ pc[q] = "done"
    /\ resp[q].op = "register"
    /\ resp[q].status = 201
    /\ resp[q].api_key \in Keys
    /\ agentRec[resp[q].agent_id].auth_hash = hash_token(resp[q].api_key)
    /\ hash_token(resp[q].api_key) \in DOMAIN authKey


(***************************************************************************)
(* C23: when the stats are computed while no other request is in progress  *)
(* and no message expires (SpecQuiet), the response gives: as total, the   *)
(* number of registrations answered 201; as total_stored, the number of    *)
(* message records; as total_queued, the sum of the lengths of all         *)
(* inboxes; as busiest, inboxes with their lengths, each above 0, in       *)
(* non-increasing order, the 10 longest when there are more than 10.  No   *)
(* step of the stats changes a key.                                        *)
(***************************************************************************)
Queued == {e \in (DOMAIN inbox) \X (1..(BusyOffset(NBusy + 1) + MaxQuietSends + 1)) :
             e[2] <= Len(inbox[e[1]])}

NonEmpty == {a \in DOMAIN inbox : inbox[a] # <<>>}

C23_StatsStep ==
  \A q \in Procs :
    (pc[q] = "stats_docs" /\ pc'[q] = "done")
    => LET r == resp'[q]
           b == r.busiest
       IN /\ r.status = 200
          /\ r.total = Cardinality({x \in regLog : x.status = 201})
          /\ r.total_stored = Cardinality(DOMAIN message)
          /\ r.total_queued = Cardinality(Queued)
          /\ Len(b) <= 10
          /\ Len(b) = Min(10, Cardinality(NonEmpty))
          /\ \A i \in 1..Len(b) :
               /\ b[i].count > 0
               /\ b[i].agent_id \in DOMAIN inbox
               /\ b[i].count = Len(inbox[b[i].agent_id])
          /\ \A i, j \in 1..Len(b) :
               i < j => b[i].count >= b[j].count /\ b[i].agent_id # b[j].agent_id
          /\ \A a \in NonEmpty : \A i \in 1..Len(b) :
               a \notin {b[k].agent_id : k \in 1..Len(b)}
               => Len(inbox[a]) <= b[i].count

C23_ReadOnly ==
  (\E q \in Procs : pc'[q] # pc[q] /\ pc'[q] # "idle" /\ loc'[q].op = "stats")
  => UNCHANGED storeVars

C23_QuiescentStats == [][C23_StatsStep /\ C23_ReadOnly]_vars

\* a snapshot taken after a send to agents 3 and 4, with more than 10
\* inboxes in the store: busiest has 10 entries and leaves one inbox out
C23_Witness ==
  \E q \in Procs :
    /\ pc[q] = "done"
    /\ resp[q].op = "stats"
    /\ resp[q].status = 200
    /\ Quiet(q)
    /\ Len(resp[q].busiest) = 10
    /\ Cardinality(NonEmpty) > 10
    /\ resp[q].total_queued = Cardinality(Queued)
    /\ resp[q].total_queued > BusyOffset(NBusy + 1)
    /\ resp[q].busiest[1].count > resp[q].busiest[10].count


(***************************************************************************)
(* C24: a send that the rate limiter has passed is answered by the first   *)
(* precondition that fails, in the order: recipient count (400), duplicate *)
(* recipients (400), sender among the recipients (403), trimmed body empty *)
(* or longer than 32768 (400); the recipients are looked up (404) only     *)
(* when all four hold.                                                     *)
(***************************************************************************)
FirstFailure(q) ==
  IF loc[q].to = <<>> \/ Len(loc[q].to) > 10
  THEN <<400, "to must contain 1-10 recipients">>
  ELSE IF \E i, j \in 1..Len(loc[q].to) : i # j /\ loc[q].to[i] = loc[q].to[j]
  THEN <<400, "duplicate recipients are not allowed">>
  ELSE IF \E i \in 1..Len(loc[q].to) : loc[q].to[i] = loc[q].agent_id
  THEN <<403, "cannot send a message to yourself">>
  ELSE IF Len(trim(loc[q].body)) = 0 \/ Len(trim(loc[q].body)) > 32768
  THEN <<400, "body must be 1-32768 characters">>
  ELSE <<0, "">>

C24_FirstFailureWins ==
  /\ \A q \in FinishedSends :
       loc[q].count <= RateLimit
       => IF FirstFailure(q)[1] # 0
          THEN /\ resp[q].status = FirstFailure(q)[1]
               /\ resp[q].error = FirstFailure(q)[2]
               /\ "HGET" \notin Range(ops[q])
          ELSE resp[q].status \in {404, 201}
  /\ \A q \in Procs :
       (pc[q] # "idle" /\ loc[q].op = "send" /\ "HGET" \in Range(ops[q]))
       => FirstFailure(q)[1] = 0

\* more than 10 recipients, repeated, the sender among them, a blank body:
\* the answer is that of the recipient count
C24_Witness ==
  \E q \in FinishedSends :
    /\ loc[q].to = TooMany
    /\ trim(loc[q].body) = <<>>
    /\ loc[q].count <= RateLimit
    /\ resp[q].status = 400
    /\ resp[q].error = "to must contain 1-10 recipients"


(***************************************************************************)
(* C25: every rate counter in the store equals the number of sends of its  *)
(* sender that reached the limiter in its minute, the ones answered 429    *)
(* included; while a minute lasts the counter of a sender that has tried   *)
(* in it exists; the step that answers 429 leaves the counter one higher;  *)
(* and after a send of a minute was limited every later send of the sender *)
(* in that minute is limited.                                              *)
(***************************************************************************)
Attempts(s, m) ==
  {j \in 1..Len(Get(rlLog, s)) : Minute(rlLog[s][j].at) = m}

C25_Counted ==
  /\ \A k \in DOMAIN rl : rl[k].count = Cardinality(Attempts(k[1], k[2]))
  /\ \A s \in DOMAIN rlLog :
       Attempts(s, Minute(now)) # {} => <<s, Minute(now)>> \in DOMAIN rl
  /\ \A s \in DOMAIN rlLog : \A i, k \in 1..Len(rlLog[s]) :
       (/\ i < k
        /\ Minute(rlLog[s][i].at) = Minute(rlLog[s][k].at)
        /\ rlLog[s][i].limited)
       => rlLog[s][k].limited

C25_RejectStep ==
  \A q \in Procs :
    (pc[q] = "send_rl" /\ pc'[q] = "done" /\ resp'[q].status = 429)
    => LET k == <<loc[q].agent_id, Minute(now)>> IN
       /\ k \in DOMAIN rl
       /\ rl[k].count >= 12
       /\ rl'[k].count = rl[k].count + 1

C25_NoRollback == []C25_Counted /\ [][C25_RejectStep]_vars

\* two sends of agent 1 in the current minute were answered 429 and the
\* counter stands at 14
C25_Witness ==
  /\ <<1, Minute(now)>> \in DOMAIN rl
  /\ rl[<<1, Minute(now)>>].count = 14
  /\ \E i \in 1..(Len(rlLog[1]) - 1) :
       /\ rlLog[1][i].limited
       /\ rlLog[1][i + 1].limited
       /\ Minute(rlLog[1][i].at) = Minute(now)


(***************************************************************************)
(* C26: with sends of one sender on two connections, every rate counter    *)
(* in the store has an expiry; the expiry is 120 seconds, twice the width  *)
(* of a minute bucket, after the last increment of the counter; the        *)
(* counter holds one increment per send that reached the limiter in its    *)
(* minute; no counter is in the store at or after its expiry, which is     *)
(* less than 120 seconds after the end of its minute; and every counter    *)
(* whose expiry lies within the modelled time is eventually removed.       *)
(***************************************************************************)
Increments(k) ==
  {j \in 1..Len(Get(rlLog, k[1])) : rlLog[k[1]][j].at \div 60 = k[2]}

C26_Expiring ==
  \A k \in DOMAIN rl :
    /\ DOMAIN rl[k] = {"count", "expire_at"}
    /\ rl[k].count = Cardinality(Increments(k))
    /\ \E j \in Increments(k) :
         /\ \A i \in Increments(k) : i <= j
         /\ rl[k].expire_at = rlLog[k[1]][j].at + 120
         /\ rl[k].expire_at - rlLog[k[1]][j].at >= 2 * 60
    /\ rl[k].expire_at > now
    /\ rl[k].expire_at < (k[2] + 1) * 60 + 120

WithinHorizon ==
  {k \in MailAgents \X (0..(MaxExpiryTime \div 60)) :
     (k[2] + 1) * 60 + 120 <= MaxExpiryTime}

C26_Removed ==
  \A k \in WithinHorizon : (k \in DOMAIN rl) ~> (k \notin DOMAIN rl)

C26_AtomicExpiry == []C26_Expiring /\ C26_Removed

\* two sends of agent 1 were counted in the first minute, their counter has
\* been removed, and a counter of a later minute is in the store
C26_Witness ==
  /\ 1 \in DOMAIN rlLog
  /\ Cardinality(Increments(<<1, 0>>)) = 2
  /\ <<1, 0>> \notin DOMAIN rl
  /\ <<1, Minute(now)>> \in DOMAIN rl
  /\ \E q1, q2 \in Procs :
       /\ q1 # q2
       /\ pc[q1] = "done" /\ resp[q1].op = "send"
       /\ pc[q2] = "done" /\ resp[q2].op = "send"


(***************************************************************************)
(* C27: in every state another request can run in, a message id is in the  *)
(* inboxes of all the recipients of its send or of none of them, and an id *)
(* that is in an inbox belongs to a send that has written the content      *)
(* record and set its expiry.                                              *)
(***************************************************************************)
AppendedTo(m) == {a \in MailAgents : m \in Range(Get(appended, a))}

C27_AtomicBatch ==
  /\ \A m \in DOMAIN sent : AppendedTo(m) \in {{}, Range(sent[m].to)}
  /\ \A q \in Procs :
       pc[q] \in {"send_hset", "send_expire"} => AppendedTo(loc[q].message_id) = {}
  /\ \A m \in DOMAIN message : AppendedTo(m) # {} => message[m].ttl


(***************************************************************************)
(* C28: a register answered 503 after its batch failed has left no agent   *)
(* record, no auth index entry and no creation index entry for its         *)
(* agent_id, and its name reservation is gone unless the rollback DEL      *)
(* itself failed.                                                          *)
(***************************************************************************)
BatchFailed(q) ==
  /\ pc[q] = "done"
  /\ resp[q].op = "register"
  /\ resp[q].status = 503

C28_AllOrNothing ==
  \A q \in Procs :
    BatchFailed(q) =>
      /\ loc[q].agent_id \notin DOMAIN agentRec
      /\ loc[q].auth_hash \notin DOMAIN authKey
      /\ loc[q].agent_id \notin created
      /\ loc[q].deleted =>
           \/ loc[q].name \notin DOMAIN nameKey
           \/ nameKey[loc[q].name] # loc[q].agent_id


(***************************************************************************)
(* C29: with one poller per agent, once a poll that keeps entries has      *)
(* pushed them back, the inbox is the kept ids in their order followed by  *)
(* the ids appended since the poll's LRANGE, in append order; and the ids  *)
(* returned to an agent over its polls are in the order of their appends.  *)
(***************************************************************************)
\* the poll of q has made its last LPUSH
Requeued(q) ==
  /\ pc[q] \in {"poll_fetch", "done"}
  /\ loc[q].op = "poll"
  /\ "to_keep" \in DOMAIN loc[q]
  /\ loc[q].to_keep # <<>>

\* the ids appended to the inbox of a after the first n
AppendedAfter(a, n) == SubSeq(Get(appended, a), n + 1, Len(Get(appended, a)))

C29_RequeueOrder ==
  /\ \A q \in Procs :
       Requeued(q) =>
         Get(inbox, loc[q].agent_id) =
           loc[q].to_keep \o AppendedAfter(loc[q].agent_id, loc[q].seen_at)
  /\ \A a \in MailAgents :
       Get(delivered, a) =
         SelectSeq(Get(appended, a), LAMBDA m : m \in Range(Get(delivered, a)))

\* a poll with take=1 found ids 1 and 2, a send appended id 3 between its
\* LRANGE and its LTRIM, and the inbox is the kept id 2 followed by 3
C29_Witness ==
  \E q \in Procs :
    /\ Requeued(q)
    /\ pc[q] = "done"
    /\ loc[q].trim_at > loc[q].seen_at
    /\ loc[q].to_keep = <<2>>
    /\ Get(inbox, loc[q].agent_id) = <<2, 3>>


(***************************************************************************)
(* C30: a poll answers remaining = the number of ids it pushed back =      *)
(* max(0, v - take), v being the number of snapshot ids whose content      *)
(* existed at step 2; with take >= v it answers remaining = 0 and returns  *)
(* all v messages; and when nothing was appended to the inbox since the    *)
(* poll's LRANGE, the inbox holds exactly remaining ids.                   *)
(***************************************************************************)
\* v: the snapshot ids of the poll of q whose EXISTS answered true
Valid(q) == IF "valid_ids" \in DOMAIN loc[q] THEN loc[q].valid_ids ELSE <<>>

\* the valid ids the poll of q was to return: the first take of them
Taken(q) == SubSeq(Valid(q), 1, Min(TakeOf(loc[q].take), Len(Valid(q))))

RemainingIsPushedBack(q) ==
  /\ resp[q].remaining = Count(ops[q], "LPUSH")
  /\ resp[q].remaining =
       (IF Len(Valid(q)) > TakeOf(loc[q].take)
        THEN Len(Valid(q)) - TakeOf(loc[q].take) ELSE 0)
  /\ Len(Get(appended, loc[q].agent_id)) = loc[q].seen_at
       => Len(Get(inbox, loc[q].agent_id)) = resp[q].remaining

Skipped(q) == Range(loc[q].to_return) \ Range(MessageIds(resp[q].messages))

\* the ids a poll of a in progress has still to push back
ToPush(a) ==
  UNION {Range(loc[q].to_keep) :
           q \in {r \in Procs : pc[r] = "poll_lpush" /\ loc[r].agent_id = a}}

C31_Skipped ==
  \A q \in AnsweredPolls :
    "to_return" \in DOMAIN loc[q] =>
      /\ MessageIds(resp[q].messages) =
           SelectSeq(loc[q].to_return, LAMBDA m : m \notin Skipped(q))
      /\ resp[q].remaining = Len(loc[q].to_keep)
      /\ resp[q].remaining = Count(ops[q], "LPUSH")
      /\ \A m \in Skipped(q) :
           /\ m \notin DOMAIN message
           /\ m \notin Range(Get(inbox, loc[q].agent_id))
           /\ m \notin Range(Get(delivered, loc[q].agent_id))

C31_FetchStep ==
  /\ \A q \in Procs :
       pc[q] = "poll_fetch" /\ pc'[q] # "poll_fetch" =>
         /\ resp'[q].status = 200
         /\ inbox' = inbox
  /\ \A a \in MailAgents : \A m \in Range(Get(appended, a)) :
       /\ (m \notin DOMAIN message /\ m \notin Range(Get(delivered, a)))
            => m \notin Range(Get(delivered', a))
       /\ (m \notin Range(Get(inbox, a)) /\ m \notin ToPush(a))
            => m \notin Range(Get(inbox', a))

C31_LateExpiry == []C31_Skipped /\ [][C31_FetchStep]_vars

\* take = 2 of three ids: id 1 expired between the existence check and the
\* fetch, id 2 is returned alone, id 3 was pushed back
C31_Witness ==
  \E q \in AnsweredPolls :
    /\ Valid(q) = <<1, 2, 3>>
    /\ loc[q].to_return = <<1, 2>>
    /\ MessageIds(resp[q].messages) = <<2>>
    /\ resp[q].remaining = 1
    /\ Get(inbox, loc[q].agent_id) = <<3>>


(***************************************************************************)
(* C32: after a poll answered 503, every id of the snapshot it had read    *)
(* whose content still exists is in the inbox.                             *)
(***************************************************************************)
FailedPolls ==
  {q \in Procs : /\ pc[q] = "done"
                 /\ resp[q].op = "poll"
                 /\ resp[q].status = 503
                 /\ "all_ids" \in DOMAIN loc[q]}

C32_NoLossOnFailure ==
  \A q \in FailedPolls : \A m \in Range(loc[q].all_ids) :
    m \in DOMAIN message => m \in Range(Get(inbox, loc[q].agent_id))


(***************************************************************************)
(* C33: an id is appended to an inbox only by a send whose check found the *)
(* owner active: a check that finds the recipient inactive ends the send   *)
(* with 404, and every append to an inbox is made by a send that holds a   *)
(* passed check of its owner.  (As first stated: the owner is active at    *)
(* the moment of every append.)                                            *)
(***************************************************************************)
\* the position of agent a in the recipient list of the send of q (0: absent)
IndexIn(q, a) ==
  IF a \in Range(loc[q].to)
  THEN CHOOSE i \in 1..Len(loc[q].to) : loc[q].to[i] = a
  ELSE 0

\* the send of q has checked recipient a and has not yet appended to its inbox
Pending(q, a) ==
  /\ pc[q] \in {"send_check", "send_hset", "send_expire", "send_rpush"}
  /\ loc[q].op = "send"
  /\ "i" \in DOMAIN loc[q]
  /\ IndexIn(q, a) > 0
  /\ IF pc[q] = "send_check" THEN IndexIn(q, a) < loc[q].i
     ELSE IF pc[q] = "send_rpush" THEN IndexIn(q, a) >= loc[q].i
     ELSE TRUE

AppendsTo(a) == Get(appended', a) # Get(appended, a)

\* the statement as written
C33_ActiveAtAppend ==
  [][\A a \in MailAgents : AppendsTo(a) => Active(a)]_vars

C33_CheckStep ==
  /\ \A a \in MailAgents :
       AppendsTo(a) => \E q \in Procs : Pending(q, a) /\ ~Pending(q, a)'
  /\ \A q \in Procs, a \in MailAgents :
       /\ (~Pending(q, a) /\ Pending(q, a)') => Active(a)
       /\ (/\ pc[q] = "send_check"
           /\ loc[q].to[loc[q].i] = a
           /\ ~Active(a)
           /\ pc'[q] # pc[q] \/ loc'[q] # loc[q])
            => /\ pc'[q] = "done"
               /\ resp'[q].status = 404
               /\ appended' = appended

C33_CheckedBeforeAppend == [][C33_CheckStep]_vars

\* a send to agent 2 has been answered 201 and its id is in the inbox of
\* agent 2, which was deactivated after the send's check
C33_Witness ==
  \E q \in AnsweredSends :
    /\ 2 \in Range(loc[q].to)
    /\ loc[q].message_id \in Range(Get(inbox, 2))
    /\ ~Active(2)


(***************************************************************************)
(* C34: a store step of activate, deactivate or update leaves the name     *)
(* reservations, the auth index, the creation index, every message, every  *)
(* inbox, every rate counter and every other agent's record as they were,  *)
(* and in the caller's record changes at most active (activate and         *)
(* deactivate) or description (update), or updated_at; the write of active *)
(* sets it to the requested value whatever it was, and changes nothing     *)
(* when it already had that value.                                         *)
(***************************************************************************)
OwnStages == {"sa_active", "sa_updated", "upd_description", "upd_updated"}

\* the fields a request at this stage may write
Writable(stage) ==
  CASE stage = "sa_active" -> {"active"}
    [] stage = "upd_description" -> {"description"}
    [] OTHER -> {"updated_at"}

C34_OwnStep ==
  \A q \in Procs :
    (pc[q] \in OwnStages /\ pc'[q] # pc[q]) =>
      LET a == loc[q].agent_id IN
      /\ <<nameKey, authKey, created, message, inbox, rl>>' =
           <<nameKey, authKey, created, message, inbox, rl>>
      /\ DOMAIN agentRec' = DOMAIN agentRec
      /\ \A b \in DOMAIN agentRec \ {a} : agentRec'[b] = agentRec[b]
      /\ DOMAIN agentRec[a] \subseteq DOMAIN agentRec'[a]
      /\ DOMAIN agentRec'[a] \subseteq DOMAIN agentRec[a] \cup Writable(pc[q])
      /\ \A f \in DOMAIN agentRec[a] \ Writable(pc[q]) : agentRec'[a][f] = agentRec[a][f]
      /\ pc[q] = "sa_active" =>
           /\ agentRec'[a].active = ActiveStr(loc[q].active)
           /\ agentRec[a].active = ActiveStr(loc[q].active) => agentRec' = agentRec

C34_OwnRecordOnly == [][C34_OwnStep]_vars

\* agent 2 has been answered 204 to a deactivate and to an activate, the
\* activate's HSET being the later one: it is active, its name is the one it
\* registered, updated_at is later than created_at, and the message sent to
\* it is in its inbox
C34_Witness ==
  /\ pc["p2"] = "done" /\ resp["p2"].op = "set_active" /\ resp["p2"].status = 204
  /\ pc["p3"] = "done" /\ resp["p3"].op = "set_active" /\ resp["p3"].status = 204
  /\ loc["p2"].active # loc["p3"].active
  /\ agentRec[2].active = "true"
  /\ agentRec[2].name = MailNames[2]
  /\ agentRec[2].updated_at > agentRec[2].created_at
  /\ Get(inbox, 2) = <<1>>


(***************************************************************************)
(* C35: a step of a poll of agent X leaves every other agent's inbox,      *)
(* every message content record, every agent record, the indexes and the   *)
(* rate counters as they were; its snapshot is the inbox of X; and every   *)
(* message a poll returns to X was addressed to X.                         *)
(***************************************************************************)
C35_PollStep ==
  \A q \in Procs :
    (pc[q] \in PollStages /\ pc'[q] # pc[q]) =>
      /\ <<nameKey, agentRec, authKey, created, message, rl>>' =
           <<nameKey, agentRec, authKey, created, message, rl>>
      /\ \A b \in MailAgents \ {loc[q].agent_id} : Get(inbox', b) = Get(inbox, b)
      /\ pc[q] = "poll_lrange" => loc'[q].all_ids = Get(inbox, loc[q].agent_id)

C35_Addressed ==
  \A q \in AnsweredPolls : \A i \in 1..Len(resp[q].messages) :
    /\ loc[q].agent_id \in Range(resp[q].messages[i].to)
    /\ resp[q].messages[i].message_id \in Range(Get(appended, loc[q].agent_id))

C35_OwnInboxOnly == []C35_Addressed /\ [][C35_PollStep]_vars

\* message 1, sent to agents 2 and 3, was returned to agent 2; its content
\* record is still there and agent 3 has just been returned it too
C35_Witness ==
  /\ 1 \in DOMAIN sent
  /\ sent[1].to = <<2, 3>>
  /\ 1 \in Range(Get(delivered, 2))
  /\ 1 \in DOMAIN message
  /\ \E q \in AnsweredPolls :
       /\ loc[q].agent_id = 3
       /\ MessageIds(resp[q].messages) = <<1>>


(***************************************************************************)
(* C36: the key of a registered agent resolves to its agent_id whether the *)
(* agent is active or not; the sends, polls and activations of agent 2 are *)
(* answered as those of an active agent (201 for its sends to the active   *)
(* agent 3, 200 with the queued message for its polls, 204 for activate    *)
(* and deactivate) whatever its active flag; a send's check of a recipient *)
(* passes exactly when the recipient is active; and a search returns       *)
(* active agents only.                                                     *)
(***************************************************************************)
\* the answered requests made with the key of agent a
AnsweredBy(a) ==
  {q \in Procs : /\ pc[q] = "done"
                 /\ "token" \in DOMAIN loc[q]
                 /\ loc[q].token = ApiKey(a)}

C36_Answers ==
  \A q \in AnsweredBy(2) :
    /\ "agent_id" \in DOMAIN loc[q]
    /\ loc[q].agent_id = 2
    /\ resp[q].op = "send" => resp[q].status = 201
    /\ resp[q].op = "set_active" => resp[q].status = 204
    /\ resp[q].op = "poll" =>
         /\ resp[q].status = 200
         /\ loc[q].all_ids # <<>> => resp[q].messages # <<>>

C36_Step ==
  \A q \in Procs :
    /\ (pc[q] = "auth" /\ pc'[q] # "auth" /\ hash_token(loc[q].token) \in DOMAIN authKey)
         => /\ "agent_id" \in DOMAIN loc'[q]
            /\ loc'[q].agent_id = authKey[hash_token(loc[q].token)]
    /\ (pc[q] = "send_check" /\ (pc'[q] # pc[q] \/ loc'[q] # loc[q]))
         => (pc'[q] = "done") = ~Active(loc[q].to[loc[q].i])
    /\ (pc[q] = "search_ft" /\ pc'[q] # pc[q])
         => \A r \in loc'[q].results : Active(r.agent_id)

C36_AuthIgnoresActive == []C36_Answers /\ [][C36_Step]_vars

\* agent 2 is not active: its send to agent 3, made on the connection on
\* which it deactivated itself, has been answered 201, and its poll has
\* returned the message that was queued for it
C36_Witness ==
  /\ ~Active(2)
  /\ pc["p2"] = "done" /\ resp["p2"].op = "send" /\ resp["p2"].status = 201
  /\ resp["p2"].message_id \in Range(Get(inbox, 3))
  /\ pc["p3"] = "done" /\ resp["p3"].op = "poll" /\ resp["p3"].status = 200
  /\ Len(resp["p3"].messages) = 1


(***************************************************************************)
(* C37: a request during which a store command or the connection to the    *)
(* store failed is answered 503, the failed command having been sent at    *)
(* most once; and a search is answered 200, 400 or 503.                    *)
(***************************************************************************)
\* the answered requests in which a store round-trip failed
StoreFailed == {q \in Procs : pc[q] = "done" /\ "failed_at" \in DOMAIN loc[q]}

C37_SurfacedAsUnavailable ==
  /\ \A q \in StoreFailed :
       /\ resp[q].status = 503
       /\ loc[q].failed_at = "search_ft" => Count(ops[q], "FT.SEARCH") = 1
       /\ loc[q].failed_at = "search_zcard" => Count(ops[q], "ZCARD") = 1
  /\ \A q \in Procs :
       (pc[q] = "done" /\ resp[q].op = "search") => resp[q].status \in {200, 400, 503}


(***************************************************************************)
(* C38: in every state, each agent record has the reservation of its name, *)
(* holding its id; each auth index entry leads to an agent record whose    *)
(* auth_hash is the entry's digest; each agent record has exactly one auth *)
(* index entry; and no step removes an agent record, an auth index entry   *)
(* or the reservation of a registered agent.                               *)
(***************************************************************************)
AuthEntries(a) == {h \in DOMAIN authKey : authKey[h] = a}

C38_Reserved ==
  \A a \in DOMAIN agentRec :
    /\ agentRec[a].name \in DOMAIN nameKey
    /\ nameKey[agentRec[a].name] = a

C38_Indexed ==
  \A h \in DOMAIN authKey :
    /\ authKey[h] \in DOMAIN agentRec
    /\ agentRec[authKey[h]].auth_hash = h

C38_IdentityConsistent ==
  /\ C38_Reserved
  /\ C38_Indexed
  /\ \A a \in DOMAIN agentRec : Cardinality(AuthEntries(a)) = 1


(***************************************************************************)
(* C39: sanitize_phrase leaves no metacharacter, keeps the other           *)
(* non-whitespace characters in order, leaves single spaces between words  *)
(* and none at the ends, and maps its output to itself; build_query keeps, *)
(* in order, the phrases that do not sanitize to empty, under the          *)
(* active=true filter, and gives no query exactly when none is left; a     *)
(* search is answered 400, without a store command, exactly when it has 0  *)
(* or more than 10 phrases, or a phrase of length 0 or more than 256, or   *)
(* no query.                                                               *)
(***************************************************************************)
Searches == {q \in Procs : pc[q] # "idle" /\ loc[q].op = "search"}

Sanitized(phrase) ==
  LET s == sanitize_phrase(phrase) IN
  /\ \A i \in 1..Len(s) : s[i] \notin Special
  /\ \A i \in 1..Len(s) : s[i] \in Whitespace =>
       /\ s[i] = " "
       /\ i > 1 /\ i < Len(s)
       /\ s[i + 1] \notin Whitespace
  /\ SelectSeq(s, LAMBDA c : c \notin Whitespace) =
       SelectSeq(phrase, LAMBDA c : c \notin Special /\ c \notin Whitespace)
  /\ (s = <<>>) = (\A i \in 1..Len(phrase) : phrase[i] \in Special \cup Whitespace)
  /\ sanitize_phrase(s) = s

\* the phrases that survive the sanitizer, in the order of the request
Kept(phrases) ==
  LET keep == {i \in 1..Len(phrases) : sanitize_phrase(phrases[i]) # <<>>}
      RECURSIVE Build(_)
      Build(i) ==
        IF i > Len(phrases) THEN <<>>
        ELSE (IF i \in keep THEN <<sanitize_phrase(phrases[i])>> ELSE <<>>) \o Build(i + 1)
  IN Build(1)

Refused(phrases) ==
  \/ Len(phrases) = 0
  \/ Len(phrases) > PhrasesMax
  \/ \E i \in 1..Len(phrases) : Len(phrases[i]) = 0 \/ Len(phrases[i]) > PhraseMaxLen
  \/ Kept(phrases) = <<>>

C39_QueryConstruction ==
  \A q \in Searches :
    /\ \A i \in 1..Len(loc[q].phrases) : Sanitized(loc[q].phrases[i])
    /\ IF Kept(loc[q].phrases) = <<>>
       THEN loc[q].query = NoQuery
       ELSE /\ loc[q].query # NoQuery
            /\ loc[q].query.phrases = Kept(loc[q].phrases)
            /\ <<"active", "true">> \in loc[q].query.tags
    /\ pc[q] = "done" =>
         /\ (resp[q].status = 400) = Refused(loc[q].phrases)
         /\ resp[q].status = 400 => ops[q] = <<>>
         /\ resp[q].status \in {200, 400}
    /\ pc[q] # "done" => ~Refused(loc[q].phrases)

\* a search answered 200 whose first phrase was changed by the sanitizer and
\* whose second phrase was dropped
C39_Witness ==
  \E q \in Searches :
    /\ pc[q] = "done"
    /\ resp[q].status = 200
    /\ loc[q].phrases = << <<"a", " ", "!">>, <<"!", " ">> >>
    /\ loc[q].query.phrases = << <<"a">> >>

====
